---- MODULE Spec2Model ----
(***************************************************************************)
(* A model of the AutoDJ core: the transition graph and its path search    *)
(* (src/graphStuff), the XTY pairing, the chunk-isometry refiner           *)
(* (src/MonolithDev/gettingSongs/recognizer.py) and the fingerprint /      *)
(* recognition pipeline (src/MonolithDev/recognizingStuff).                *)
(*                                                                         *)
(* Times (seconds, Python floats in the source) are modelled as integers.  *)
(* A Python dict is modelled by its keys in insertion order (nodes) or by  *)
(* a total function with an empty default (edges, as read through          *)
(* dict.get(key, [])).  ret is the outcome of the most recent call.        *)
(* In the recognition pipeline a time is held exactly, as a number of      *)
(* audio samples (seconds = samples / sr), and what numpy computes from    *)
(* the feature matrices (correlation signals, chunk similarities) is an    *)
(* input of the model.                                                     *)
(***************************************************************************)
EXTENDS Integers, Sequences, FiniteSets, TLC

VARIABLES nodes,   \* DirectedSongGraph.nodes: the song ids, in insertion order
          edges,   \* DirectedSongGraph.edges: song id -> list of TransitionEdge
          inp,     \* the arguments of the pure function under check
          ret,     \* the outcome of the most recent call
          files,   \* the audio files on disk: path -> what librosa.load finds
          cache,   \* the fingerprints/ directory: entries and writability
          call     \* the running chunk_match call of main.py: position and locals

vars == <<nodes, edges, inp, ret, files, cache, call>>

(***************************************************************************)
(* Bounds                                                                  *)
(***************************************************************************)
Songs == {"A", "B", "C"}
Mixes == {"m1", "m2"}
MaxEdges == 3          \* edges a graph holds
MaxTime == 1           \* sourceEnd / targetStart of a directly added edge
MaxK == 2              \* beam widths 0..MaxK
MaxPath == 3           \* songs in a path handed to songs_to_edges

Times == 0 .. MaxTime

(***************************************************************************)
(* Sequence helpers                                                        *)
(***************************************************************************)
BSeq(S, n) == UNION {[1 .. m -> S] : m \in 0 .. n}
Range(s) == {s[i] : i \in DOMAIN s}
Last(s) == s[Len(s)]
Take(s, k) == SubSeq(s, 1, IF k < Len(s) THEN k ELSE Len(s))
NoRepeat(s) == \A i, j \in DOMAIN s : i # j => s[i] # s[j]

None == [op |-> "none"]

(***************************************************************************)
(* XT_PAIR / XTY_PAIR and the pairing (XTpair.py, XTYpair.py, XTYmaker.py) *)
(***************************************************************************)
MIN_GAP == 5
DEFAULT_TOL == 45
DEFAULT_CROSSFADE == 5

XT_PAIR(song, mix, offset, cross_in, cross_out) ==
    [source_song_path |-> song, mix_song_path |-> mix, offset |-> offset,
     cross_in |-> cross_in, cross_out |-> cross_out]

XTY_PAIR(x, y) ==
    [X_song_path |-> x.source_song_path, Y_song_path |-> y.source_song_path,
     mix_song_path |-> x.mix_song_path, Xoffset |-> x.offset, Yoffset |-> y.offset,
     Xcross_out |-> x.cross_out, Ycross_in |-> y.cross_in]

\* group_xt_by_mix: the mixes in order of first appearance (the dict's keys) ...
RECURSIVE MixKeys(_, _)
MixKeys(xt_pairs, i) ==
    IF i = 0 THEN <<>>
    ELSE LET ks == MixKeys(xt_pairs, i - 1)
             key == xt_pairs[i].mix_song_path
         IN IF key \in Range(ks) THEN ks ELSE Append(ks, key)

\* ... and each mix's candidates, in input order (the dict's values).
group_xt_by_mix(xt_pairs, key) ==
    SelectSeq(xt_pairs, LAMBDA xt : xt.mix_song_path = key)

\* The test of line 27 of XTYmaker.py.
QualifiesBug(x, y, tol) ==
    /\ x.source_song_path # y.source_song_path
    /\ MIN_GAP <= y.cross_in - x.cross_out
    /\ y.cross_in - x.cross_out < tol

\* The same test on the distance |y.cross_in - x.cross_out| alone.
QualifiesNear(x, y, tol) ==
    /\ x.source_song_path # y.source_song_path
    /\ y.cross_in - x.cross_out < tol
    /\ x.cross_out - y.cross_in < tol

Qualifies(x, y, tol) ==
    /\ x.source_song_path # y.source_song_path
    /\ MIN_GAP < y.cross_in - x.cross_out
    /\ y.cross_in - x.cross_out < tol

\* for y in xt_list
RECURSIVE PairYs(_, _, _, _)
PairYs(x, xt_list, j, tol) ==
    IF j > Len(xt_list) THEN <<>>
    ELSE (IF Qualifies(x, xt_list[j], tol) THEN <<XTY_PAIR(x, xt_list[j])>> ELSE <<>>)
         \o PairYs(x, xt_list, j + 1, tol)

\* for x in xt_list
RECURSIVE PairXs(_, _, _)
PairXs(xt_list, i, tol) ==
    IF i > Len(xt_list) THEN <<>>
    ELSE PairYs(xt_list[i], xt_list, 1, tol) \o PairXs(xt_list, i + 1, tol)

\* for mix, xt_list in mix_dict.items()
RECURSIVE PairMixes(_, _, _, _)
PairMixes(xt_pairs, keys, m, tol) ==
    IF m > Len(keys) THEN <<>>
    ELSE PairXs(group_xt_by_mix(xt_pairs, keys[m]), 1, tol)
         \o PairMixes(xt_pairs, keys, m + 1, tol)

find_xty_pairs_from_mix_groups(xt_pairs, tol) ==
    PairMixes(xt_pairs, MixKeys(xt_pairs, Len(xt_pairs)), 1, tol)

(***************************************************************************)
(* DirectedSongGraph (graph.py).  A graph value is [nodes, edges].         *)
(* SongNode.metadata and TransitionEdge.extra are never read by the        *)
(* search and are left out of the records.                                 *)
(***************************************************************************)
EmptyGraph == [nodes |-> <<>>, edges |-> [s \in Songs |-> <<>>]]

TransitionEdge(source, target, sourceEnd, targetStart, mix_id, xty) ==
    [source |-> source, target |-> target, sourceEnd |-> sourceEnd,
     targetStart |-> targetStart, mix_id |-> mix_id, xty |-> xty]

add_song(g, song_id) ==
    IF song_id \in Range(g.nodes) THEN g
    ELSE [g EXCEPT !.nodes = Append(@, song_id)]

\* add_transition without its last line, self.add_song(target).
add_transitionBug(g, source, target, sourceEnd, targetStart, mix_id, xty) ==
    LET edge == TransitionEdge(source, target, sourceEnd, targetStart, mix_id, xty)
        g1 == [g EXCEPT !.edges[source] = Append(@, edge)]
    IN add_song(g1, source)

add_transition(g, source, target, sourceEnd, targetStart, mix_id, xty) ==
    LET edge == TransitionEdge(source, target, sourceEnd, targetStart, mix_id, xty)
        g1 == [g EXCEPT !.edges[source] = Append(@, edge)]
    IN add_song(add_song(g1, source), target)

get_out_edges(g, song_id) == g.edges[song_id]

\* The SongNode of every out-edge's target, one per edge (parallel edges
\* repeat the neighbour); a SongNode is identified with its song_id.
get_neighbors(g, song_id) ==
    [i \in 1 .. Len(g.edges[song_id]) |-> g.edges[song_id][i].target]

\* The same loop with sourceEnd = pair.Xcross_out, the crossfade left out.
RECURSIVE AddPairsBug(_, _, _, _)
AddPairsBug(g, pairs, i, crossfade_length) ==
    IF i > Len(pairs) THEN g
    ELSE AddPairsBug(add_transition(g, pairs[i].X_song_path, pairs[i].Y_song_path,
                                    pairs[i].Xcross_out, pairs[i].Ycross_in,
                                    pairs[i].mix_song_path, pairs[i]),
                     pairs, i + 1, crossfade_length)

\* for pair in XTYpairs: self.add_transition(...)
RECURSIVE AddPairs(_, _, _, _)
AddPairs(g, pairs, i, crossfade_length) ==
    IF i > Len(pairs) THEN g
    ELSE AddPairs(add_transition(g, pairs[i].X_song_path, pairs[i].Y_song_path,
                                 pairs[i].Xcross_out + crossfade_length,
                                 pairs[i].Ycross_in, pairs[i].mix_song_path, pairs[i]),
                  pairs, i + 1, crossfade_length)

make_edges(g, XTpairs, crossfade_length) ==
    AddPairs(g, find_xty_pairs_from_mix_groups(XTpairs, DEFAULT_TOL), 1, crossfade_length)

EdgeCount(g) ==
    LET RECURSIVE Sum(_)
        Sum(S) == IF S = {} THEN 0
                  ELSE LET s == CHOOSE x \in S : TRUE
                       IN Len(g.edges[s]) + Sum(S \ {s})
    IN Sum(Songs)

(***************************************************************************)
(* songs_to_edges (graph.py 117-154, graphAlgo.py 45-81)                   *)
(***************************************************************************)
\* A selector argument: None (the default rule), or a callable.  The callables
\* modelled return the last candidate, or None.
Selectors == {"default", "last", "returns_none"}

Indices(n) == [i \in 1 .. n |-> i]

\* out_edges after both filters, as positions in the source's edge list;
\* prev is <<>> for prev_target_start = None, else <<prev_target_start>>.
KeepsBug(e, target, prev) ==
    /\ e.target = target
    /\ (prev = <<>> \/ e.sourceEnd > prev[1])

Keeps(e, target, prev) ==
    /\ e.target = target
    /\ (prev = <<>> \/ e.sourceEnd >= prev[1])

\* The time filter of line 137 turned round.
OutEdgesBug(g, source, target, prev) ==
    SelectSeq(Indices(Len(get_out_edges(g, source))),
              LAMBDA j : /\ get_out_edges(g, source)[j].target = target
                         /\ (prev = <<>> \/ get_out_edges(g, source)[j].sourceEnd <= prev[1]))

OutEdges(g, source, target, prev) ==
    SelectSeq(Indices(Len(get_out_edges(g, source))),
              LAMBDA j : Keeps(get_out_edges(g, source)[j], target, prev))

\* max(out_edges, key=lambda e: e.sourceEnd): the first of the maximal ones.
RECURSIVE MaxBySourceEndBug(_, _, _, _)
MaxBySourceEndBug(es, cand, i, best) ==
    IF i > Len(cand) THEN best
    ELSE MaxBySourceEndBug(es, cand, i + 1,
             IF es[cand[i]].sourceEnd >= es[best].sourceEnd THEN cand[i] ELSE best)

RECURSIVE MaxBySourceEnd(_, _, _, _)
MaxBySourceEnd(es, cand, i, best) ==
    IF i > Len(cand) THEN best
    ELSE MaxBySourceEnd(es, cand, i + 1,
             IF es[cand[i]].sourceEnd > es[best].sourceEnd THEN cand[i] ELSE best)

\* The chosen position, or 0 when a callable selector returns None.
SelectEdge(es, cand, edge_selector) ==
    CASE edge_selector = "default" -> MaxBySourceEnd(es, cand, 2, cand[1])
      [] edge_selector = "last" -> cand[Len(cand)]
      [] OTHER -> 0

\* The loop of songs_to_edges from hop i on; acc is the local list edges (as
\* positions, idx, and as records, edges).
RECURSIVE ResolveFrom(_, _, _, _, _, _, _)
ResolveFrom(g, song_path, edge_selector, i, acc, idx, prev) ==
    IF i > Len(song_path) - 1
    THEN [status |-> "ok", edges |-> acc, idx |-> idx]
    ELSE LET source == song_path[i]
             target == song_path[i + 1]
             es == get_out_edges(g, source)
             cand == OutEdges(g, source, target, prev)
         IN IF cand = <<>>
            THEN [status |-> "ValueError", why |-> "no_edge", edges |-> acc, idx |-> idx]
            ELSE LET j == SelectEdge(es, cand, edge_selector)
                 IN IF j = 0
                    THEN [status |-> "ValueError", why |-> "selector_none",
                          edges |-> acc, idx |-> idx]
                    ELSE ResolveFrom(g, song_path, edge_selector, i + 1,
                                     Append(acc, es[j]), Append(idx, j),
                                     <<es[j].targetStart>>)

songs_to_edges(g, song_path, edge_selector) ==
    ResolveFrom(g, song_path, edge_selector, 1, <<>>, <<>>, <<>>)

(***************************************************************************)
(* beam_search (graph.py 86-115, graphAlgo.py 10-43)                       *)
(***************************************************************************)
\* remaining_outdegree (line 104)
remaining_outdegree(g, song_id, new_visited) ==
    Cardinality({j \in 1 .. Len(get_out_edges(g, song_id)) :
                    get_out_edges(g, song_id)[j].target \notin new_visited})

\* The entry appended to new_beam for one unvisited neighbour (lines 101-105).
NewEntryBug(g, path, visited, neighbor) ==
    [path |-> Append(path, Last(path)),
     visited |-> visited \cup {neighbor},
     h |-> remaining_outdegree(g, neighbor, visited \cup {neighbor})]

\* The same entry with the neighbour left out of the visited set.
NewEntryStale(g, path, visited, neighbor) ==
    [path |-> Append(path, neighbor),
     visited |-> visited,
     h |-> remaining_outdegree(g, neighbor, visited \cup {neighbor})]

NewEntry(g, path, visited, neighbor) ==
    [path |-> Append(path, neighbor),
     visited |-> visited \cup {neighbor},
     h |-> remaining_outdegree(g, neighbor, visited \cup {neighbor})]

\* The same loop leaving at the first unvisited neighbour.
ExtensionsBug(g, path, visited, neighbors, i) ==
    LET open == {j \in i .. Len(neighbors) : neighbors[j] \notin visited}
    IN IF open = {} THEN <<>>
       ELSE <<NewEntry(g, path, visited,
                       neighbors[CHOOSE j \in open : \A m \in open : j <= m])>>

\* for neighbor in neighbors (lines 99-106): the entries one beam element adds.
RECURSIVE Extensions(_, _, _, _, _)
Extensions(g, path, visited, neighbors, i) ==
    IF i > Len(neighbors) THEN <<>>
    ELSE (IF neighbors[i] \notin visited
          THEN <<NewEntry(g, path, visited, neighbors[i])>>
          ELSE <<>>)
         \o Extensions(g, path, visited, neighbors, i + 1)

\* if len(path) > len(best_path): best_path = path (lines 109-110)
BetterBug(path, best_path) == Len(path) >= Len(best_path)

Better(path, best_path) == Len(path) > Len(best_path)

\* for path, visited in beam (lines 95-110): new_beam and best_path after it.
RECURSIVE ScanBeam(_, _, _, _, _)
ScanBeam(g, beam, i, new_beam, best_path) ==
    IF i > Len(beam) THEN [new_beam |-> new_beam, best_path |-> best_path]
    ELSE LET path == beam[i].path
             ext == Extensions(g, path, beam[i].visited,
                               get_neighbors(g, Last(path)), 1)
         IN ScanBeam(g, beam, i + 1, new_beam \o ext,
                     IF ext = <<>> /\ Better(path, best_path) THEN path ELSE best_path)

\* new_beam.sort(key=lambda x: x[2], reverse=True): a stable sort, so entries
\* of equal h keep their order.
InsertByH(sorted, x) ==
    LET n == Cardinality({i \in 1 .. Len(sorted) : sorted[i].h >= x.h})
    IN SubSeq(sorted, 1, n) \o <<x>> \o SubSeq(sorted, n + 1, Len(sorted))

RECURSIVE SortByH(_, _)
SortByH(new_beam, i) ==
    IF i = 0 THEN <<>> ELSE InsertByH(SortByH(new_beam, i - 1), new_beam[i])

\* The first k entries of new_beam as generated, the sort left out.
NextBeamBug(new_beam, k) ==
    LET top == Take(new_beam, k)
    IN [i \in 1 .. Len(top) |-> [path |-> top[i].path, visited |-> top[i].visited]]

\* beam = [(p, v) for (p, v, h) in new_beam[:k]] (line 114)
NextBeam(new_beam, k) ==
    LET top == Take(SortByH(new_beam, Len(new_beam)), k)
    IN [i \in 1 .. Len(top) |-> [path |-> top[i].path, visited |-> top[i].visited]]

StartBeam(start_id) == <<[path |-> <<start_id>>, visited |-> {start_id}]>>

\* while beam (lines 93-114)
RECURSIVE WhileBeam(_, _, _, _)
WhileBeam(g, beam, best_path, k) ==
    IF beam = <<>> THEN best_path
    ELSE LET r == ScanBeam(g, beam, 1, <<>>, best_path)
         IN WhileBeam(g, NextBeam(r.new_beam, k), r.best_path, k)

\* for start_id in graph.nodes (lines 90-114)
RECURSIVE ForStarts(_, _, _, _)
ForStarts(g, s, best_path, k) ==
    IF s > Len(g.nodes) THEN best_path
    ELSE ForStarts(g, s + 1, WhileBeam(g, StartBeam(g.nodes[s]), best_path, k), k)

BestPath(g, k) == ForStarts(g, 1, <<>>, k)

\* beam_search: best_path (the local, kept for inspection) and the outcome
\* of songs_to_edges(graph, best_path).
beam_search(g, k) ==
    LET best_path == BestPath(g, k)
        r == songs_to_edges(g, best_path, "default")
    IN [op |-> "beam_search", k |-> k, path |-> best_path,
        status |-> r.status, edges |-> r.edges, idx |-> r.idx]

\* get_decent_path, get_ATB_pairs_partial and get_ATB_pairs (lines 56-69):
\* the graph the call leaves, and the XTY pairs of the edges of
\* beam_search(self, k=5) or the exception songs_to_edges raised.
DECENT_K == 5

get_ATB_pairs_partial(g) ==
    LET r == beam_search(g, DECENT_K)
    IN IF r.status = "ok"
       THEN [raised |-> "none", pairs |-> [i \in DOMAIN r.edges |-> r.edges[i].xty]]
       ELSE [raised |-> "ValueError", pairs |-> <<>>]

get_ATB_pairs(g, XTpairs) ==
    LET g1 == make_edges(g, XTpairs, DEFAULT_CROSSFADE)
    IN [graph |-> g1] @@ get_ATB_pairs_partial(g1)

(***************************************************************************)
(* find_largest_isometry (gettingSongs/recognizer.py 112-139)              *)
(* A match is the tuple (i, song_start, mix_best_start, sim); an optional  *)
(* frame is <<>> for None and <<f>> for the frame f.  Indices are Python's *)
(* (from 0); matches[i] of the source is matches[i + 1] here.              *)
(***************************************************************************)
DEFAULT_ISOMETRY_TOL == 100

Abs(x) == IF x < 0 THEN -x ELSE x

\* abs((b_mix - a_mix) - (b_song - a_song)) <= tol (line 132)
IsometricBug(a_song, a_mix, b_song, b_mix, tol) ==
    (b_mix - a_mix) - (b_song - a_song) <= tol

Isometric(a_song, a_mix, b_song, b_mix, tol) ==
    Abs((b_mix - a_mix) - (b_song - a_song)) <= tol

\* for j in range(n) (lines 125-133)
RECURSIVE AnchorIndices(_, _, _, _, _)
AnchorIndices(matches, i, j, indices, tol) ==
    IF j >= Len(matches) THEN indices
    ELSE LET a == matches[i + 1]
             b == matches[j + 1]
             keep == /\ i # j
                     /\ ~(b[3] = <<>> \/ a[3] = <<>>)
                     /\ Isometric(a[2], a[3][1], b[2], b[3][1], tol)
         IN AnchorIndices(matches, i, j + 1,
                          IF keep THEN Append(indices, j) ELSE indices, tol)

\* The same loop taking a later anchor on a tie (>= for >).
RECURSIVE AnchorLoopBug(_, _, _, _)
AnchorLoopBug(matches, i, best, tol) ==
    IF i >= Len(matches) THEN best
    ELSE LET indices == AnchorIndices(matches, i, 0, <<i>>, tol)
         IN AnchorLoopBug(matches, i + 1,
                IF Len(indices) >= best.best_count
                THEN [best_count |-> Len(indices), best_indices |-> indices,
                      anchor_song_start |-> <<matches[i + 1][2]>>,
                      anchor_mix_start |-> matches[i + 1][3]]
                ELSE best,
                tol)

\* for i in range(n) (lines 122-138); best holds the four locals.
RECURSIVE AnchorLoop(_, _, _, _)
AnchorLoop(matches, i, best, tol) ==
    IF i >= Len(matches) THEN best
    ELSE LET indices == AnchorIndices(matches, i, 0, <<i>>, tol)
         IN AnchorLoop(matches, i + 1,
                IF Len(indices) > best.best_count
                THEN [best_count |-> Len(indices), best_indices |-> indices,
                      anchor_song_start |-> <<matches[i + 1][2]>>,
                      anchor_mix_start |-> matches[i + 1][3]]
                ELSE best,
                tol)

\* The same function with best_count starting at 1.
find_largest_isometryBug(matches, chunk_size, tol) ==
    LET best == AnchorLoop(matches, 0,
                           [best_count |-> 1, best_indices |-> <<>>,
                            anchor_song_start |-> <<>>, anchor_mix_start |-> <<>>],
                           tol)
    IN [anchor_song_start |-> best.anchor_song_start,
        anchor_mix_start |-> best.anchor_mix_start,
        best_indices |-> best.best_indices]

find_largest_isometry(matches, chunk_size, tol) ==
    LET best == AnchorLoop(matches, 0,
                           [best_count |-> 0, best_indices |-> <<>>,
                            anchor_song_start |-> <<>>, anchor_mix_start |-> <<>>],
                           tol)
    IN [anchor_song_start |-> best.anchor_song_start,
        anchor_mix_start |-> best.anchor_mix_start,
        best_indices |-> best.best_indices]

(***************************************************************************)
(* AudioFingerprinter (recognizingStuff/audio_recognizer.py 41-125)        *)
(* files[p] says what is on disk at p: nothing, something librosa cannot   *)
(* decode, a recording, or that p cannot be examined at all (a name that   *)
(* is too long, a directory that may not be searched), so that             *)
(* Path(p).exists() raises OSError.  A cache entry is absent, unreadable,  *)
(* or an                                                                   *)
(* .npz holding (chroma, sr).  The chroma matrix of a recording is known   *)
(* by the recording and its number of frames.  An optional value is <<>>   *)
(* for None and <<v>> for v.                                               *)
(***************************************************************************)
AudioPaths == {<<"songs", "a.mp3">>, <<"mixes", "a.mp3">>, <<"mixes", "m.mp3">>}
Recordings == {1, 2}
BaseFrames == 3                       \* recording r has BaseFrames + 2 (r - 1) chroma frames

\* The sample rate a recording was made at: 22050 Hz and 44100 Hz.
NativeRate(r) == 22050 * r

PyNone == <<>>
Some(v) == <<v>>
NoFingerprint == <<PyNone, PyNone>>

\* What Path(audio_file).exists() of line 73 meets: no file (False), a file
\* librosa cannot decode, a path the operating system refuses to examine (a
\* name component that is too long, a directory without search permission:
\* OSError), or a recording.  Where the interpreter's Path.exists answers
\* False for every OSError, such a path is a Missing one.
Missing == [kind |-> "missing"]
Undecodable == [kind |-> "undecodable"]
Unreachable == [kind |-> "unreachable"]
Recording(r) == [kind |-> "audio", rec |-> r]
FileStates == {Missing, Undecodable, Unreachable} \cup {Recording(r) : r \in Recordings}

\* librosa.load(audio_file, sr=None) (line 79)
librosa_load(audio_file) ==
    IF files[audio_file].kind = "audio"
    THEN [raised |-> FALSE, y |-> files[audio_file].rec,
          sr |-> NativeRate(files[audio_file].rec)]
    ELSE [raised |-> TRUE]

\* librosa.feature.chroma_stft(y, sr, hop_length) (lines 80-82)
chroma_stft(y) == [rec |-> y, frames |-> BaseFrames + 2 * (y - 1)]

\* Path(audio_file).name and the cache key built from it (lines 93-98)
get_fingerprint_path(audio_file) == <<"fingerprints", audio_file[Len(audio_file)]>>

CacheKeys == {get_fingerprint_path(p) : p \in AudioPaths}
Absent == [kind |-> "absent"]
Unreadable == [kind |-> "unreadable"]
Npz(chroma, sr) == [kind |-> "npz", chroma |-> chroma, sr |-> sr]
EntryStates == {Absent, Unreadable} \cup {Npz(chroma_stft(r), NativeRate(r)) : r \in Recordings}
EmptyCache == [entries |-> [k \in CacheKeys |-> Absent], writable |-> TRUE]

\* load_fingerprint reading a partly written file as an empty fingerprint
\* instead of failing.
load_fingerprintBug(c, file_path) ==
    IF c.entries[file_path].kind = "npz"
    THEN <<Some(c.entries[file_path].chroma), Some(c.entries[file_path].sr)>>
    ELSE IF c.entries[file_path].kind = "unreadable"
    THEN <<Some([rec |-> 0, frames |-> 0]), Some(0)>>
    ELSE NoFingerprint

\* load_fingerprint: any failure of np.load is caught (lines 116-125)
load_fingerprint(c, file_path) ==
    IF c.entries[file_path].kind = "npz"
    THEN <<Some(c.entries[file_path].chroma), Some(c.entries[file_path].sr)>>
    ELSE NoFingerprint

\* The same save with the sample rate stored in place of the chroma frames.
save_fingerprintBug(c, chroma, sr, file_path) ==
    IF chroma = PyNone \/ sr = PyNone THEN [ok |-> FALSE, cache |-> c]
    ELSE IF ~c.writable THEN [ok |-> FALSE, cache |-> c]
    ELSE [ok |-> TRUE,
          cache |-> [c EXCEPT !.entries[file_path] =
                         Npz([chroma[1] EXCEPT !.frames = sr[1]], sr[1])]]

\* save_fingerprint: any failure of np.savez is caught (lines 100-114)
save_fingerprint(c, chroma, sr, file_path) ==
    IF chroma = PyNone \/ sr = PyNone THEN [ok |-> FALSE, cache |-> c]
    ELSE IF ~c.writable THEN [ok |-> FALSE, cache |-> c]
    ELSE [ok |-> TRUE,
          cache |-> [c EXCEPT !.entries[file_path] = Npz(chroma[1], sr[1])]]

\* The try block of lines 77-91: load, compute, save, return.
ComputeFingerprint(c, audio_file) ==
    LET loaded == librosa_load(audio_file)
    IN IF loaded.raised
       THEN [result |-> NoFingerprint, raised |-> "none", cache |-> c]
       ELSE [result |-> <<Some(chroma_stft(loaded.y)), Some(loaded.sr)>>,
             raised |-> "none",
             cache |-> save_fingerprint(c, Some(chroma_stft(loaded.y)), Some(loaded.sr),
                                        get_fingerprint_path(audio_file)).cache]

\* create_fingerprint (lines 48-91): the result, the exception that escapes
\* it ("none" if it returns) and the cache it leaves.  The existence test of
\* line 73 stands outside both try blocks: the OSError of a path that cannot
\* be examined escapes.
create_fingerprint(c, audio_file) ==
    LET preloaded_fingerprint == load_fingerprint(c, get_fingerprint_path(audio_file))
    IN IF preloaded_fingerprint[1] # PyNone /\ preloaded_fingerprint[2] # PyNone
       THEN [result |-> preloaded_fingerprint, raised |-> "none", cache |-> c]
       ELSE IF files[audio_file].kind = "unreachable"
       THEN [result |-> NoFingerprint, raised |-> "OSError", cache |-> c]
       ELSE IF files[audio_file].kind = "missing"
       THEN [result |-> NoFingerprint, raised |-> "none", cache |-> c]
       ELSE ComputeFingerprint(c, audio_file)

(***************************************************************************)
(* AudioRecognizer (recognizingStuff/audio_recognizer.py 128-538)          *)
(***************************************************************************)
HOP_LENGTH == 512
CONFIDENCE_THRESHOLD_ROUGH == 10000

Min(a, b) == IF a < b THEN a ELSE b
Max(a, b) == IF a > b THEN a ELSE b

(***************************************************************************)
(* Double-precision arithmetic.  numpy and librosa compute times in        *)
(* IEEE-754 doubles (53-bit significands, round to nearest, ties to even), *)
(* so that a time is seldom n / sr itself, and int() or floor() of a       *)
(* product can lose a unit.  The operators below compute the same doubles  *)
(* with integers.                                                          *)
(***************************************************************************)
RECURSIVE Pow2(_)
Pow2(n) == IF n = 0 THEN 1 ELSE 2 * Pow2(n - 1)

RECURSIVE GCD(_, _)
GCD(a, b) == IF b = 0 THEN a ELSE GCD(b, a % b)

\* e with 2^e <= n < 2^(e+1), for n >= 1
RECURSIVE Log2Floor(_)
Log2Floor(n) == IF n < 2 THEN 0 ELSE 1 + Log2Floor(n \div 2)

\* the least j with a * 2^j >= b
RECURSIVE DoublingsToReach(_, _)
DoublingsToReach(a, b) == IF a >= b THEN 0 ELSE 1 + DoublingsToReach(2 * a, b)

\* The binary exponent x of the quotient: 2^x <= a / b < 2^(x+1).
ExponentOf(a, b) == IF a >= b THEN Log2Floor(a \div b) ELSE -DoublingsToReach(a, b)

\* <<a * 2^k mod b, a * 2^(k-1) mod b>> from r = a mod b: the remainder of
\* the long division a / b after k binary places and the one before it,
\* which tells the last bit of the quotient.  Eight places are taken at a
\* time while more than eight are left (b < 2^23), then one at a time; a
\* remainder of 0 stays 0.
RECURSIVE Remainders(_, _, _, _)
Remainders(r, prev, b, k) ==
    IF k <= 0 THEN <<r, prev>>
    ELSE IF r = 0 THEN <<0, 0>>
    ELSE IF k > 8 THEN Remainders((256 * r) % b, r, b, k - 8)
    ELSE Remainders((2 * r) % b, r, b, k - 1)

TruncDiv(a, b) == IF a >= 0 THEN a \div b ELSE -((-a) \div b)

\* A double v that stands for a time at the sample rate sr is written
\* [n, k, t] with v * sr = n + t / 2^k exactly: n samples, off by t units
\* of 2^-k of a sample.  v is a multiple of 2^-k.
Double(n, k, t) == [n |-> n, k |-> k, t |-> t]
Zero == Double(0, 0, 0)
Negated(v) == Double(-v.n, v.k, -v.t)

\* The double s for a whole number s of seconds.
Seconds(s, sr) == Double(s * sr, 0, 0)

\* t * 2^k
Scaled(t, k) == IF t = 0 THEN 0 ELSE t * Pow2(k)

\* Two records of one double.
SameDouble(v, w) ==
    /\ v.n = w.n
    /\ Scaled(v.t, Max(v.k, w.k) - v.k) = Scaled(w.t, Max(v.k, w.k) - w.k)

\* The double n / sr for n > 0: the quotient to 53 bits, rounded down by r
\* or up by sr - r units of its last place.
RoundedQuotient(n, sr) ==
    LET k == 52 - ExponentOf(n, sr)
        rem == Remainders(n % sr, n % sr, sr, k)
        r == rem[1]
    IN IF r = 0 THEN Double(n, k, 0)
       ELSE IF 2 * r < sr \/ (2 * r = sr /\ 2 * rem[2] < sr)
       THEN Double(n, k, -r)
       ELSE Double(n, k, sr - r)

\* The double n / sr (numpy true division of an integer by float(sr)).
Quotient(n, sr) ==
    IF n = 0 THEN Zero
    ELSE IF n > 0 THEN RoundedQuotient(n, sr)
    ELSE Negated(RoundedQuotient(-n, sr))

\* The double nearest to (n + T / 2^K) / sr for n > 0.  Its exponent x is
\* that of n / sr, or one less when n / sr is a power of two and T < 0.  A
\* sum that is a multiple of 2^(x-52) is a double; any other lies between
\* two doubles n + (j * sr - rho) / 2^(52-x), j and j + 1, and goes to the
\* nearer one, or to the one with the even significand.
RoundedSum(n, K, T, sr) ==
    LET x0 == ExponentOf(n, sr)
        power == IF x0 >= 0 THEN n = sr * Pow2(x0) ELSE n * Pow2(-x0) = sr
        k == 52 - (IF power /\ T < 0 THEN x0 - 1 ELSE x0)
        d == K - k
        rem == Remainders(n % sr, n % sr, sr, k)
        rho == rem[1]
        q_odd == 2 * rem[2] >= sr
        step == sr * Pow2(d)
        u == T + rho * Pow2(d)
        j == u \div step
        twice == 2 * (u - j * step)
        up == \/ twice > step
              \/ twice = step /\ ((j % 2 = 1) # q_odd)
    IN IF d <= 0 THEN Double(n, K, T)
       ELSE Double(n, k, (IF up THEN j + 1 ELSE j) * sr - rho)

\* v + w in doubles
Sum(v, w, sr) ==
    LET n == v.n + w.n
        K == Max(v.k, w.k)
        T == Scaled(v.t, K - v.k) + Scaled(w.t, K - w.k)
    IN IF n = 0 THEN (IF T = 0 THEN Zero ELSE Double(0, K, T))
       ELSE IF n > 0 THEN RoundedSum(n, K, T, sr)
       ELSE Negated(RoundedSum(-n, K, -T, sr))

\* v - w in doubles
Difference(v, w, sr) == Sum(v, Negated(w), sr)

\* int(v * sr) for v >= 0 with v * sr = n + t / 2^k: the product is
\* rounded to a double, which is below n only if t is negative and more
\* than half the distance from n to the double before it.
TruncatedProduct(v) ==
    LET e == Log2Floor(v.n)
        s == v.k - 53 + e - (IF v.n = Pow2(e) THEN 1 ELSE 0)
    IN IF v.n = 0 \/ v.t >= 0 THEN v.n
       ELSE IF s < 0 THEN v.n - 1
       ELSE IF s > 30 THEN v.n
       ELSE IF -v.t > Pow2(s) THEN v.n - 1 ELSE v.n

\* librosa.time_to_samples: (times * sr).astype(int), truncation towards 0
time_to_samples(time) ==
    IF time.n >= 0 THEN TruncatedProduct(time) ELSE -TruncatedProduct(Negated(time))

\* librosa.time_to_frames(time, sr, hop_length): time_to_samples(time,
\* sr) // hop_length, the floor of the quotient
time_to_frames(time, hop_length) == time_to_samples(time) \div hop_length

\* frames_to_time given an n_fft: every time is shifted by half a window.
frames_to_timeBug(frames, sr, hop_length) == Quotient(frames * hop_length + hop_length, sr)

\* librosa.frames_to_time(frames, sr, hop_length): frames * hop_length / sr
frames_to_time(frames, sr, hop_length) == Quotient(frames * hop_length, sr)

\* For a, b, c > 0 with a * c / b an integer N: -1, 0 or 1 as the double
\* (a / b) * c lies below, on or above N.  The quotient is rounded to 53
\* bits, down by r / b or up by (b - r) / b units of its last place; the
\* product is rounded again and leaves N only if that error exceeds half
\* the distance from N to the neighbouring double.
Deviation(a, b, c) ==
    LET g == GCD(b, c)
        cg == c \div g
        bg == b \div g
        N == (a * cg) \div bg
        x == ExponentOf(a, b)
        rem == Remainders(a % b, a % b, b, 52 - x)
        r == rem[1]
        down == 2 * r < b \/ (2 * r = b /\ 2 * rem[2] < b)
        e == Log2Floor(N)
        Exceeds(err, sh) == IF sh >= 0 THEN err * cg > bg * Pow2(sh)
                            ELSE err * cg * Pow2(-sh) > bg
    IN IF r = 0 THEN 0
       ELSE IF down
       THEN (IF Exceeds(r, e - 1 - x - (IF N = Pow2(e) THEN 1 ELSE 0)) THEN -1 ELSE 0)
       ELSE (IF Exceeds(b - r, e - 1 - x) THEN 1 ELSE 0)

\* floor((a / b) * c) in doubles, for a, c >= 0 and b > 0
FloorOfProduct(a, b, c) ==
    IF a = 0 \/ c = 0 THEN 0
    ELSE LET g == GCD(b, c)
             cg == c \div g
             bg == b \div g
         IN IF (a * cg) % bg # 0 THEN (a * cg) \div bg
            ELSE (a * cg) \div bg + (IF Deviation(a, b, c) = -1 THEN -1 ELSE 0)

\* ceil((a / b) * c) in doubles, for a, c >= 0 and b > 0
CeilOfProduct(a, b, c) ==
    IF a = 0 \/ c = 0 THEN 0
    ELSE LET g == GCD(b, c)
             cg == c \div g
             bg == b \div g
         IN IF (a * cg) % bg # 0 THEN (a * cg) \div bg + 1
            ELSE (a * cg) \div bg + (IF Deviation(a, b, c) = 1 THEN 1 ELSE 0)

\* np.argmax: the first index (from 0) of the largest element
RECURSIVE ArgMaxFrom(_, _, _)
ArgMaxFrom(xs, i, best) ==
    IF i > Len(xs) THEN best - 1
    ELSE ArgMaxFrom(xs, i + 1, IF xs[i] > xs[best] THEN i ELSE best)

argmax(xs) == ArgMaxFrom(xs, 2, 1)

\* The comparison of line 166 with <= in place of <.
BelowConfidenceBug(best_match_score, threshold) == best_match_score <= threshold

\* best_match_score < confidence_threshold (line 166; recognizer.py line 28)
BelowConfidence(best_match_score, threshold) == best_match_score < threshold

\* find_rough_match (lines 135-185): time_correlation is the channel-summed
\* correlation signal of line 161, song_frames is song_chroma.shape[1], sr is
\* None or a sample rate.
find_rough_match(time_correlation, song_frames, sr) ==
    IF sr = PyNone THEN <<PyNone, PyNone>>
    ELSE
    LET best_match_frame == argmax(time_correlation)
        best_match_score == time_correlation[best_match_frame + 1]
    IN IF BelowConfidence(best_match_score, CONFIDENCE_THRESHOLD_ROUGH)
       THEN <<PyNone, PyNone>>
       ELSE LET start_time == frames_to_time(best_match_frame, sr[1], HOP_LENGTH)
                song_duration_secs == frames_to_time(song_frames, sr[1], HOP_LENGTH)
            IN <<Some(start_time), Some(Sum(start_time, song_duration_secs, sr[1]))>>

\* The signal correlate(mode="valid") yields for a wide and a narrow matrix:
\* the first wide - narrow + 1 values of the given scores.
ValidSignal(scores, wide, narrow) ==
    SubSeq(scores, 1, (IF wide >= narrow THEN wide - narrow ELSE narrow - wide) + 1)

\* The while loop of generate_alignedConfidences (lines 377-418).
RECURSIVE ChunkInfo(_, _, _, _, _, _, _, _, _, _)
ChunkInfo(certainty, sr, current_frame, chunk_count, chunk_frames, step_frames, min_duration_frames, song_start_frame, mix_start_frame, time_offset) ==
    IF current_frame + chunk_frames > min_duration_frames THEN <<>>
    ELSE <<[chunk_id |-> chunk_count,
            aligned_time |-> Difference(frames_to_time(current_frame + song_start_frame,
                                                       sr, HOP_LENGTH),
                                        time_offset, sr),
            certainty |-> certainty[chunk_count + 1],
            song_start_frame |-> current_frame + song_start_frame,
            mix_start_frame |-> current_frame + mix_start_frame,
            chunk_frames |-> chunk_frames]>>
         \o ChunkInfo(certainty, sr, current_frame + step_frames, chunk_count + 1,
                      chunk_frames, step_frames, min_duration_frames, song_start_frame,
                      mix_start_frame, time_offset)

\* max(chunk_info, key=certainty): the first chunk of the highest certainty
RECURSIVE MaxCertainty(_, _, _)
MaxCertainty(chunk_info, i, best) ==
    IF i > Len(chunk_info) THEN chunk_info[best]
    ELSE MaxCertainty(chunk_info, i + 1,
                      IF chunk_info[i].certainty > chunk_info[best].certainty THEN i ELSE best)

\* _find_reference_chunk (lines 454-476); <<>> is the empty dict.
find_reference_chunk(chunk_info) ==
    IF chunk_info = <<>> THEN <<>> ELSE <<MaxCertainty(chunk_info, 2, 1)>>

\* The loop of line 379 is entered with chunks of no columns (chunk_frames =
\* 0 <= min_duration_frames).  _calculate_chunk_certainty (lines 427-452)
\* then gets 12 x 0 matrices: correlate yields an empty array, its sum over
\* axis 0 is a scalar, and indexing the scalar (line 446) raises IndexError.
EmptyFirstChunk(chunk_frames, min_duration_frames) ==
    chunk_frames <= min_duration_frames /\ chunk_frames = 0

\* generate_alignedConfidences (lines 294-425) with the defaults n_chunks = 20
\* and overlap_percentage = 0.9: effective_chunks is the double
\* 2.8999999999999986 and int() truncates towards zero, which gives
\* chunk_frames = trunc(10 * min_duration_frames / 29) and overlap_frames =
\* trunc(9 * chunk_frames / 10).  certainty[i] is _calculate_chunk_certainty
\* of chunk i, and the first pass of the loop on empty chunks raises.
generate_alignedConfidences(certainty, sr, song_start_time, mix_start_time, song_end_time, mix_end_time) ==
    LET song_start_frame == time_to_frames(song_start_time, HOP_LENGTH)
        mix_start_frame == time_to_frames(mix_start_time, HOP_LENGTH)
        song_end_frame == time_to_frames(song_end_time, HOP_LENGTH)
        mix_end_frame == time_to_frames(mix_end_time, HOP_LENGTH)
        min_duration_frames == Min(song_end_frame - song_start_frame,
                                   mix_end_frame - mix_start_frame)
        chunk_frames == TruncDiv(min_duration_frames * 10, 29)
        overlap_frames == TruncDiv(chunk_frames * 9, 10)
        step_frames == chunk_frames - overlap_frames
    IN IF EmptyFirstChunk(chunk_frames, min_duration_frames)
       THEN [raised |-> "IndexError"]
       ELSE LET chunk_info == ChunkInfo(certainty, sr, 0, 0, chunk_frames, step_frames,
                                        min_duration_frames, song_start_frame,
                                        mix_start_frame,
                                        Difference(song_start_time, mix_start_time, sr))
            IN [raised |-> "none",
                time_points |-> [i \in DOMAIN chunk_info |-> chunk_info[i].aligned_time],
                certainty_scores |-> [i \in DOMAIN chunk_info |-> chunk_info[i].certainty],
                reference_chunk |-> find_reference_chunk(chunk_info)]

\* fine_tune_alignment (lines 478-538); chunk_scores are the correlation
\* scores of the reference chunk against its window of the mix.  Line 532
\* subtracts a float from chunkOffsetStart, which is None after no match.
fine_tune_alignment(chunk_scores, mix_frames, sr, rough_start_time, rough_end_time, reference_chunk) ==
    IF reference_chunk = <<>>
    THEN [raised |-> "none", value |-> <<rough_start_time, rough_end_time>>]
    ELSE LET chunk_frames == reference_chunk[1].chunk_frames
             mix_chunk_start_frame == reference_chunk[1].mix_start_frame
             mix_window_start == Max(0, mix_chunk_start_frame - chunk_frames)
             mix_window_end == Min(mix_frames, mix_chunk_start_frame + chunk_frames * 2)
             offsets == find_rough_match(
                            ValidSignal(chunk_scores, mix_window_end - mix_window_start,
                                        chunk_frames),
                            chunk_frames, sr)
         IN IF offsets[1] = PyNone
            THEN [raised |-> "TypeError", value |-> <<>>]
            ELSE [raised |-> "none", value |-> <<rough_start_time, rough_end_time>>]

\* recognize_song_in_mix from line 225 on, with the aligned confidences conf.
FineTuned(oracle, mix, rough_start, rough_end, conf) ==
    LET mix_chroma == mix.result[1]
        mix_sr == mix.result[2]
        refined == fine_tune_alignment(oracle.chunk, mix_chroma[1].frames, mix_sr,
                                       rough_start, rough_end, conf.reference_chunk)
    IN IF conf.raised # "none"
       THEN [cache |-> mix.cache, raised |-> conf.raised, returns |-> FALSE,
             result |-> <<>>]
       ELSE IF refined.raised # "none"
       THEN [cache |-> mix.cache, raised |-> refined.raised, returns |-> FALSE,
             result |-> <<>>]
       ELSE [cache |-> mix.cache, raised |-> "none", returns |-> TRUE,
             result |-> [success |-> TRUE,
                         rough_match |-> <<rough_start, rough_end>>,
                         fine_tuned_match |-> refined.value,
                         reference_chunk |-> conf.reference_chunk,
                         time_points |-> conf.time_points,
                         certainty_scores |-> conf.certainty_scores,
                         precise_match |-> <<Zero,
                                             Difference(refined.value[2],
                                                        refined.value[1], mix_sr[1]),
                                             refined.value[1], refined.value[2]>>]]

\* recognize_song_in_mix from line 208 on, with the rough match rough.
Matched(oracle, mix, rough) ==
    IF rough[1] = PyNone \/ rough[2] = PyNone
    THEN [cache |-> mix.cache, raised |-> "none", returns |-> TRUE,
          result |-> [success |-> FALSE, error |-> "No match found"]]
    ELSE FineTuned(oracle, mix, rough[1][1], rough[2][1],
                   generate_alignedConfidences(
                       oracle.certainty, mix.result[2][1], Zero, rough[1][1],
                       Difference(rough[2][1], rough[1][1], mix.result[2][1]),
                       rough[2][1]))

\* recognize_song_in_mix from line 196 on, with the results of the two
\* create_fingerprint calls.
Fingerprinted(oracle, song, mix) ==
    LET song_chroma == song.result[1]
        mix_chroma == mix.result[1]
        mix_sr == mix.result[2]
    IN IF song.raised # "none"
       THEN [cache |-> song.cache, raised |-> song.raised, returns |-> FALSE,
             result |-> <<>>]
       ELSE IF mix.raised # "none"
       THEN [cache |-> mix.cache, raised |-> mix.raised, returns |-> FALSE,
             result |-> <<>>]
       ELSE IF song_chroma = PyNone \/ mix_chroma = PyNone \/ mix_sr = PyNone
       THEN [cache |-> mix.cache, raised |-> "none", returns |-> TRUE,
             result |-> [success |-> FALSE, error |-> "Failed to create fingerprints"]]
       ELSE Matched(oracle, mix,
                    find_rough_match(
                        ValidSignal(oracle.rough, mix_chroma[1].frames,
                                    song_chroma[1].frames),
                        song_chroma[1].frames, mix_sr))

\* recognize_song_in_mix (lines 187-254): the dict it returns (returns), or
\* the exception that escapes it (raised), and the cache it leaves.  An
\* exception of create_fingerprint, generate_alignedConfidences or
\* fine_tune_alignment escapes at once.
recognize_song_in_mix(c, oracle, song_path, mix_path) ==
    Fingerprinted(oracle, create_fingerprint(c, song_path),
                  create_fingerprint(create_fingerprint(c, song_path).cache, mix_path))

(***************************************************************************)
(* chunk_match and its caller (gettingSongs/recognizer.py 11-42, 87-110,   *)
(* 141-314; recognizingStuff/main.py 37-45)                                *)
(***************************************************************************)
CONFIDENCE_THRESHOLD == 10000
SIM_LEVELS == {"below", "equal", "above"}     \* a similarity against its threshold

\* find_whole_song_in_mix from line 22 on.
find_whole_song_in_mix(time_correlation, song_len, sr, hop_length) ==
    LET best_match_frame == argmax(time_correlation)
        best_match_score == time_correlation[best_match_frame + 1]
    IN IF BelowConfidence(best_match_score, CONFIDENCE_THRESHOLD)
       THEN <<PyNone, PyNone>>
       ELSE LET start_time == frames_to_time(best_match_frame, sr, hop_length)
                song_duration_secs == frames_to_time(song_len, sr, hop_length)
            IN <<Some(start_time), Some(Sum(start_time, song_duration_secs, sr))>>

\* np.linspace(0, stop, n, dtype=int)[i]: the floor of the double i * step
\* for the double step = stop / (n - 1); the last element is stop itself.
\* (numpy before 1.20 truncated towards zero, which differs for stop < 0.)
linspace(stop, n, i) ==
    IF n = 1 THEN 0
    ELSE IF i = n - 1 THEN stop
    ELSE IF stop >= 0 THEN FloorOfProduct(stop, n - 1, i)
    ELSE -CeilOfProduct(-stop, n - 1, i)

\* The matches of find_isometric_chunk_matches (lines 96-108), adjusted to
\* frames of the whole mix (lines 274-276); best[i] is chunk i's argmax.
adjusted_matches(song_len, chunk_size, n_chunks, best, mix_start) ==
    [i \in 1 .. n_chunks |->
        <<i - 1, linspace(song_len - chunk_size, n_chunks, i - 1),
          Some(best[i] + mix_start), 0>>]

\* (song_start, mix_start) pairs in the order of the sort key of line 287
LexLeq(a, b) == a[1] < b[1] \/ (a[1] = b[1] /\ a[2] <= b[2])

\* chunk_sim's bounds test (line 185)
OutOfBounds(song_idx, mix_idx, song_len, mix_len, size) ==
    song_idx < 0 \/ mix_idx < 0 \/ song_idx + size > song_len \/ mix_idx + size > mix_len

\* The levels chunk_sim can return for a chunk: -1 is below every threshold.
ChunkSimLevels(song_idx, mix_idx, song_len, mix_len, size) ==
    IF OutOfBounds(song_idx, mix_idx, song_len, mix_len, size)
    THEN {"below"} ELSE SIM_LEVELS


Idle == [pc |-> "idle"]

(***************************************************************************)
(* Calls on one DirectedSongGraph                                          *)
(***************************************************************************)
G == [nodes |-> nodes, edges |-> edges]

\* The XTY_PAIR a direct add_transition call passes along with its edge.
DirectXTY(source, target, sourceEnd, targetStart, mix_id) ==
    [X_song_path |-> source, Y_song_path |-> target, mix_song_path |-> mix_id,
     Xoffset |-> 0, Yoffset |-> 0, Xcross_out |-> sourceEnd, Ycross_in |-> targetStart]

\* No audio on disk, an empty fingerprint cache, no chunk_match call running.
NoAudio ==
    /\ files = [p \in AudioPaths |-> Missing]
    /\ cache = EmptyCache
    /\ call = Idle

InitGraph ==
    /\ nodes = EmptyGraph.nodes
    /\ edges = EmptyGraph.edges
    /\ inp = None
    /\ ret = None
    /\ NoAudio

SetGraph(g) ==
    /\ nodes' = g.nodes
    /\ edges' = g.edges

\* graph.add_song(s); the call returns None.
AddSong ==
    \E s \in Songs :
        /\ SetGraph(add_song(G, s))
        /\ ret' = None
        /\ UNCHANGED <<inp, files, cache, call>>

\* graph.add_transition(s, t, se, ts, mix, xty) with songs of S; returns None.
AddTransitionIn(S) ==
    /\ EdgeCount(G) < MaxEdges
    /\ \E s \in S, t \in S, se \in Times, ts \in Times :
        /\ SetGraph(add_transition(G, s, t, se, ts, "m1", DirectXTY(s, t, se, ts, "m1")))
        /\ ret' = None
        /\ UNCHANGED <<inp, files, cache, call>>

AddTransition == AddTransitionIn(Songs)

\* beam_search(graph, k)
BeamSearch ==
    \E k \in 0 .. MaxK :
        /\ ret' = beam_search(G, k)
        /\ UNCHANGED <<nodes, edges, inp, files, cache, call>>

NextGraph == AddSong \/ AddTransition \/ BeamSearch

\* The path search on graphs built by add_song and add_transition.
Spec == InitGraph /\ [][NextGraph]_vars

\* songs_to_edges(graph, song_path, edge_selector), called directly.
ResolveSongs == {"A", "B"}

AddTransitionR == AddTransitionIn(ResolveSongs)

SongsToEdges ==
    \E song_path \in BSeq(ResolveSongs, MaxPath), sel \in Selectors :
        /\ ret' = [op |-> "songs_to_edges", song_path |-> song_path, selector |-> sel]
                  @@ songs_to_edges(G, song_path, sel)
        /\ UNCHANGED <<nodes, edges, inp, files, cache, call>>

NextResolve == AddTransitionR \/ SongsToEdges

\* Edge resolution on graphs built by add_transition.
SpecResolve == InitGraph /\ [][NextResolve]_vars

(***************************************************************************)
(* find_xty_pairs_from_mix_groups(xt_pairs, tol), a pure function          *)
(***************************************************************************)
MaxCands == 3                     \* candidates in one call
PairSongs == {"A", "B"}
CrossOuts == {0, 1}
CrossIns == {6, 7, 45}
Offsets == {0, 1}
Tols == {DEFAULT_TOL, 7}

PairCands ==
    {XT_PAIR(s, m, f, i, o) :
        s \in PairSongs, m \in Mixes, f \in Offsets, i \in CrossIns, o \in CrossOuts}

InitPairing ==
    /\ nodes = EmptyGraph.nodes
    /\ edges = EmptyGraph.edges
    /\ inp \in [xt_pairs : BSeq(PairCands, MaxCands), tol : Tols]
    /\ ret = None
    /\ NoAudio

FindXTYPairs ==
    /\ ret = None
    /\ ret' = [op |-> "find_xty_pairs_from_mix_groups",
               pairs |-> find_xty_pairs_from_mix_groups(inp.xt_pairs, inp.tol)]
    /\ UNCHANGED <<nodes, edges, inp, files, cache, call>>

NextPairing == FindXTYPairs

SpecPairing == InitPairing /\ [][NextPairing]_vars

(***************************************************************************)
(* find_largest_isometry(matches, chunk_size, tol), a pure function        *)
(***************************************************************************)
MaxMatches == 4                   \* chunk matches in one call
MaxSongFrame == 1                 \* song_start frames 0..MaxSongFrame
MaxMixFrame == 3                  \* mix_best_start frames 0..MaxMixFrame
IsoTols == {1, 2}

OptMixFrames == {<<>>} \cup {<<f>> : f \in 0 .. MaxMixFrame}

\* The matches with chunk numbers 0, 1, ... and sim 0.
MatchLists ==
    UNION {{[i \in 1 .. n |-> <<i - 1, s[i], m[i], 0>>] :
               s \in [1 .. n -> 0 .. MaxSongFrame], m \in [1 .. n -> OptMixFrames]} :
           n \in 0 .. MaxMatches}

InitIsometry ==
    /\ nodes = EmptyGraph.nodes
    /\ edges = EmptyGraph.edges
    /\ inp \in [matches : MatchLists, chunk_size : {1}, tol : IsoTols]
    /\ ret = None
    /\ NoAudio

FindLargestIsometry ==
    /\ ret = None
    /\ ret' = [op |-> "find_largest_isometry"]
              @@ find_largest_isometry(inp.matches, inp.chunk_size, inp.tol)
    /\ UNCHANGED <<nodes, edges, inp, files, cache, call>>

NextIsometry == FindLargestIsometry

SpecIsometry == InitIsometry /\ [][NextIsometry]_vars

(***************************************************************************)
(* create_fingerprint on any disk and any cache                            *)
(***************************************************************************)
InitFingerprint ==
    /\ nodes = EmptyGraph.nodes
    /\ edges = EmptyGraph.edges
    /\ inp = None
    /\ ret = None
    /\ files \in [AudioPaths -> FileStates]
    /\ cache \in [entries : [CacheKeys -> EntryStates], writable : BOOLEAN]
    /\ call = Idle

CreateFingerprint ==
    \E audio_file \in AudioPaths :
        LET out == create_fingerprint(cache, audio_file)
        IN /\ ret' = [op |-> "create_fingerprint", audio_file |-> audio_file,
                      entry |-> cache.entries[get_fingerprint_path(audio_file)],
                      raised |-> out.raised, result |-> out.result]
           /\ cache' = out.cache
           /\ UNCHANGED <<nodes, edges, inp, files, call>>

NextFingerprint == CreateFingerprint

SpecFingerprint == InitFingerprint /\ [][NextFingerprint]_vars

(***************************************************************************)
(* recognize_song_in_mix, starting from an empty, writable cache           *)
(***************************************************************************)
BelowThreshold == CONFIDENCE_THRESHOLD_ROUGH - 1
Scores == {BelowThreshold, CONFIDENCE_THRESHOLD_ROUGH}
MaxFrames == BaseFrames + 2           \* the longest recording, in frames

\* The certainties of the aligned chunks: all equal, or one chunk above the
\* others.
Certainties == {[i \in 1 .. MaxFrames |-> IF i = p THEN 1 ELSE 0] : p \in 0 .. MaxFrames}

\* What numpy computes in one call: the whole-song correlation signal, the
\* certainty of each aligned chunk, the reference chunk's correlation signal.
Oracles ==
    [rough : [1 .. MaxFrames - BaseFrames + 1 -> Scores],
     certainty : Certainties,
     chunk : [1 .. 2 * TruncDiv(MaxFrames * 10, 29) + 1 -> Scores]]

InitRecognize ==
    /\ nodes = EmptyGraph.nodes
    /\ edges = EmptyGraph.edges
    /\ inp \in Oracles
    /\ ret = None
    /\ files \in [AudioPaths -> {Missing, Unreachable}
                                     \cup {Recording(r) : r \in Recordings}]
    /\ cache = EmptyCache
    /\ call = Idle

\* The mix is at least as long as the song whenever both fingerprints exist.
InScope(song_path, mix_path) ==
    LET song == create_fingerprint(cache, song_path)
        mix == create_fingerprint(song.cache, mix_path)
    IN (song.result[1] # PyNone /\ mix.result[1] # PyNone)
           => song.result[1][1].frames <= mix.result[1][1].frames

\* The call site (lines 547-554) takes the song and the mix from different
\* directories: the song path ranges over songs/, the mix path over mixes/.
SongPaths == {p \in AudioPaths : p[1] = "songs"}
MixPaths == {p \in AudioPaths : p[1] = "mixes"}

RecognizeSongInMix ==
    \E song_path \in SongPaths, mix_path \in MixPaths :
        /\ InScope(song_path, mix_path)
        /\ \E out \in {recognize_song_in_mix(cache, inp, song_path, mix_path)} :
              /\ ret' = [op |-> "recognize_song_in_mix", song_path |-> song_path,
                         mix_path |-> mix_path, raised |-> out.raised,
                         returns |-> out.returns, result |-> out.result]
              /\ cache' = out.cache
        /\ UNCHANGED <<nodes, edges, inp, files, call>>

NextRecognize == RecognizeSongInMix

SpecRecognize == InitRecognize /\ [][NextRecognize]_vars

(***************************************************************************)
(* main.py calling chunk_match, one loop iteration per step                *)
(***************************************************************************)
SongLens == {2, 3}
MixLens == {3, 4}
SampleRates == {768, 1024}
ChunkSeconds == {1}
BufferSeconds == {0, 1}
NChunks == {0, 1, 2}
MinChunkFactors == {0, 1}

\* chunk_match lines 260-270 and 279: the rough estimate and the buffer zone.
CallChunkMatch ==
    /\ call.pc = "idle"
    /\ \E song_len \in SongLens, mix_len \in MixLens, sr \in SampleRates,
          chunk_seconds \in ChunkSeconds, buffer_seconds \in BufferSeconds,
          n_chunks \in NChunks, min_chunk_factor \in MinChunkFactors :
       \E time_correlation \in [1 .. mix_len - song_len + 1 -> Scores] :
          LET rough == find_whole_song_in_mix(time_correlation, song_len, sr, HOP_LENGTH)
              buffer_frames == time_to_frames(Seconds(buffer_seconds, sr), HOP_LENGTH)
              rough_start_frame == time_to_frames(rough[1][1], HOP_LENGTH)
          IN call' =
               IF rough[1] = PyNone
               THEN [pc |-> "returned", value |-> <<>>]
               ELSE [pc |-> "matches", song_len |-> song_len, mix_len |-> mix_len,
                     sr |-> sr,
                     n_chunks |-> n_chunks, min_chunk_factor |-> min_chunk_factor,
                     chunk_size |-> time_to_frames(Seconds(chunk_seconds, sr), HOP_LENGTH),
                     mix_start |-> Max(0, rough_start_frame - buffer_frames),
                     mix_end |-> Min(mix_len, rough_start_frame + buffer_frames + song_len)]
    /\ UNCHANGED <<nodes, edges, inp, ret, files, cache>>

\* chunk_match lines 272-291: chunk matches, isometry block, its first and
\* last chunk.
FindIsometryBlock ==
    /\ call.pc = "matches"
    /\ LET buffer_len == call.mix_end - call.mix_start
           lags == IF buffer_len >= call.chunk_size
                   THEN buffer_len - call.chunk_size ELSE call.chunk_size - buffer_len
       IN \E best \in [1 .. call.n_chunks -> 0 .. lags] :
          LET matches == adjusted_matches(call.song_len, call.chunk_size, call.n_chunks,
                                          best, call.mix_start)
              iso == find_largest_isometry(matches, call.chunk_size, DEFAULT_ISOMETRY_TOL)
              block == {<<matches[i + 1][2], matches[i + 1][3][1]>> :
                           i \in Range(iso.best_indices)}
              first == CHOOSE a \in block : \A b \in block : LexLeq(a, b)
              last == CHOOSE a \in block : \A b \in block : LexLeq(b, a)
          IN call' =
               IF iso.best_indices = <<>>
               THEN [pc |-> "returned", value |-> <<PyNone, PyNone, PyNone, PyNone>>]
               ELSE [pc |-> "expand_back", song_len |-> call.song_len,
                     mix_len |-> call.mix_len, sr |-> call.sr,
                     chunk_size |-> call.chunk_size,
                     min_chunk_factor |-> call.min_chunk_factor,
                     s |-> first[1], m |-> first[2],
                     last_chunk_start |-> last[1], last_mix_start |-> last[2]]
    /\ UNCHANGED <<nodes, edges, inp, ret, files, cache>>

\* refine_outer_chunks line 209: the chunk size of the first pass of each
\* loop, two seconds of frames when no initial chunk size is given.
refine_chunk_size(initial_chunk_size, sr, hop_length) ==
    IF initial_chunk_size > 0 THEN initial_chunk_size
    ELSE time_to_frames(Seconds(2, sr), hop_length)

\* expand_isometry lines 149-160, one test of the while loop.
ExpandBack ==
    /\ call.pc = "expand_back"
    /\ \E similar \in BOOLEAN :
          call' =
            IF call.s - call.chunk_size >= 0 /\ call.m - call.chunk_size >= 0 /\ similar
            THEN [call EXCEPT !.s = @ - call.chunk_size, !.m = @ - call.chunk_size]
            ELSE [pc |-> "expand_forward", song_len |-> call.song_len,
                  mix_len |-> call.mix_len, sr |-> call.sr,
                  chunk_size |-> call.chunk_size,
                  min_chunk_factor |-> call.min_chunk_factor,
                  refined_song_start |-> call.s, refined_mix_start |-> call.m,
                  s |-> call.last_chunk_start, m |-> call.last_mix_start]
    /\ UNCHANGED <<nodes, edges, inp, ret, files, cache>>

\* expand_isometry lines 163-179, one test of the while loop; on exit
\* refine_outer_chunks starts (lines 205-213).
ExpandForward ==
    /\ call.pc = "expand_forward"
    /\ \E similar \in BOOLEAN :
          call' =
            IF /\ call.s + call.chunk_size <= call.song_len
               /\ call.m + call.chunk_size <= call.mix_len
               /\ similar
            THEN [call EXCEPT !.s = @ + call.chunk_size, !.m = @ + call.chunk_size]
            ELSE [pc |-> "trim", song_len |-> call.song_len, mix_len |-> call.mix_len,
                  sr |-> call.sr,
                  chunk_size |-> refine_chunk_size(call.chunk_size, call.sr, HOP_LENGTH),
                  min_chunk_size |->
                      Max(1, call.chunk_size \div Pow2(call.min_chunk_factor)),
                  song_start |-> call.refined_song_start,
                  mix_start |-> call.refined_mix_start,
                  song_end |-> call.s, mix_end |-> call.m,
                  temp |-> refine_chunk_size(call.chunk_size, call.sr, HOP_LENGTH)]
    /\ UNCHANGED <<nodes, edges, inp, ret, files, cache>>

\* refine_outer_chunks lines 214-227, one pass of the trimming loop.
Trim ==
    /\ call.pc = "trim"
    /\ IF call.temp >= call.min_chunk_size
       THEN \E sim_trim_start \in ChunkSimLevels(call.song_start, call.mix_start,
                                                call.song_len, call.mix_len, call.temp),
               sim_trim_end \in ChunkSimLevels(call.song_end - call.temp,
                                              call.mix_end - call.temp,
                                              call.song_len, call.mix_len, call.temp) :
               call' = [call EXCEPT
                          !.song_start = IF sim_trim_start = "below" THEN @ + call.temp ELSE @,
                          !.mix_start = IF sim_trim_start = "below" THEN @ + call.temp ELSE @,
                          !.song_end = IF sim_trim_end = "below" THEN @ - call.temp ELSE @,
                          !.mix_end = IF sim_trim_end = "below" THEN @ - call.temp ELSE @,
                          !.temp = @ \div 2]
       ELSE call' = [call EXCEPT !.pc = "extend", !.temp = call.chunk_size]
    /\ UNCHANGED <<nodes, edges, inp, ret, files, cache>>

\* refine_outer_chunks lines 228-248 and chunk_match lines 309-314: one pass
\* of the extending loop; on exit clamp, convert to seconds and return.
Extend ==
    /\ call.pc = "extend"
    /\ IF call.temp >= call.min_chunk_size
       THEN \E sim_back \in ChunkSimLevels(call.song_start - call.temp,
                                          call.mix_start - call.temp,
                                          call.song_len, call.mix_len, call.temp) :
               LET song_start == IF sim_back = "above"
                                 THEN call.song_start - call.temp ELSE call.song_start
                   mix_start == IF sim_back = "above"
                                THEN call.mix_start - call.temp ELSE call.mix_start
               IN \E sim_forward \in ChunkSimLevels(call.song_end, call.mix_end,
                                                   call.song_len, call.mix_len, call.temp) :
                     call' = [call EXCEPT
                                !.song_start = song_start,
                                !.mix_start = mix_start,
                                !.song_end = IF sim_forward = "above" THEN @ + call.temp ELSE @,
                                !.mix_end = IF sim_forward = "above" THEN @ + call.temp ELSE @,
                                !.temp = @ \div 2]
       ELSE call' = [pc |-> "returned",
                     value |-> <<Some(frames_to_time(Max(0, call.song_start), call.sr,
                                                     HOP_LENGTH)),
                                 Some(frames_to_time(Min(call.song_len, call.song_end),
                                                     call.sr, HOP_LENGTH)),
                                 Some(frames_to_time(Max(0, call.mix_start), call.sr,
                                                     HOP_LENGTH)),
                                 Some(frames_to_time(Min(call.mix_len, call.mix_end),
                                                     call.sr, HOP_LENGTH))>>]
    /\ UNCHANGED <<nodes, edges, inp, ret, files, cache>>

\* main.py lines 37-45: unpack the four values and report.
MainUnpack ==
    /\ call.pc = "returned"
    /\ ret' = IF Len(call.value) # 4
              THEN [op |-> "main", raised |-> "ValueError", printed |-> "nothing"]
              ELSE [op |-> "main", raised |-> "none",
                    printed |-> IF call.value[1] # PyNone /\ call.value[2] # PyNone
                                THEN "final result" ELSE "wtf"]
    /\ call' = Idle
    /\ UNCHANGED <<nodes, edges, inp, files, cache>>

NextChunkMatch ==
    \/ CallChunkMatch
    \/ FindIsometryBlock
    \/ ExpandBack
    \/ ExpandForward
    \/ Trim
    \/ Extend
    \/ MainUnpack

SpecChunkMatch == InitGraph /\ [][NextChunkMatch]_vars

(***************************************************************************)
(* Claims about the path search (specification Spec)                       *)
(***************************************************************************)
IsBeam == ret.op = "beam_search"

\* Edge number i of the returned list is the graph's edge at position idx[i]
\* of its source's list and leads from song i to song i + 1 of path.
EdgeOfGraph(path, i) ==
    /\ ret.idx[i] \in 1 .. Len(edges[path[i]])
    /\ edges[path[i]][ret.idx[i]] = ret.edges[i]
    /\ ret.edges[i].source = path[i]
    /\ ret.edges[i].target = path[i + 1]

\* C1: beam_search with k = 1 selects a song sequence that repeats no song,
\* and when it returns, it returns one edge per consecutive pair of that
\* sequence, each an edge of the graph from the i-th song to the (i+1)-th.
C1_GreedyPathIsSimpleAndConnected ==
    (IsBeam /\ ret.k = 1) =>
        /\ NoRepeat(ret.path)
        /\ Range(ret.path) \subseteq Range(nodes)
        /\ ret.status = "ok" =>
              /\ Len(ret.edges) = (IF ret.path = <<>> THEN 0 ELSE Len(ret.path) - 1)
              /\ \A i \in 1 .. Len(ret.edges) : EdgeOfGraph(ret.path, i)

\* A greedy search that returned two edges on a graph where its first song
\* has out-edges to both other songs of the path (branching).
C1_Witness ==
    /\ IsBeam /\ ret.k = 1 /\ ret.status = "ok"
    /\ Len(ret.edges) = 2
    /\ \E i, j \in 1 .. Len(edges[ret.path[1]]) :
          {edges[ret.path[1]][i].target, edges[ret.path[1]][j].target}
              = {ret.path[2], ret.path[3]}

\* The paths that were in some start node's beam and could not be extended,
\* in the order the search meets them.
Stuck(g, e) ==
    \A j \in 1 .. Len(g.edges[Last(e.path)]) :
        g.edges[Last(e.path)][j].target \in Range(e.path)

RECURSIVE TerminalsFrom(_, _, _)
TerminalsFrom(g, beam, k) ==
    IF beam = <<>> THEN <<>>
    ELSE LET dead == SelectSeq(beam, LAMBDA e : Stuck(g, e))
         IN [i \in 1 .. Len(dead) |-> dead[i].path]
            \o TerminalsFrom(g, NextBeam(ScanBeam(g, beam, 1, <<>>, <<>>).new_beam, k), k)

RECURSIVE Terminals(_, _, _)
Terminals(g, s, k) ==
    IF s > Len(g.nodes) THEN <<>>
    ELSE TerminalsFrom(g, StartBeam(g.nodes[s]), k) \o Terminals(g, s + 1, k)

MaxLen(T) == CHOOSE n \in {Len(T[i]) : i \in DOMAIN T} : \A i \in DOMAIN T : Len(T[i]) <= n
FirstLongest(T) ==
    T[CHOOSE i \in DOMAIN T :
        /\ Len(T[i]) = MaxLen(T)
        /\ \A j \in 1 .. i - 1 : Len(T[j]) < MaxLen(T)]

\* C5: the path beam_search resolves is the first, in search order, of the
\* longest paths that were in a beam and could not be extended (the empty
\* path when there is none), and a returned list has one edge less than that
\* path has songs.
C5_LongestTerminalFirstFound ==
    IsBeam =>
        LET T == Terminals(G, 1, ret.k)
        IN /\ T = <<>> => ret.path = <<>>
           /\ T # <<>> => ret.path = FirstLongest(T)
           /\ (ret.status = "ok" /\ T # <<>>) => Len(ret.edges) = MaxLen(T) - 1

\* A search that returned two edges although a different terminal path of
\* the same length was met later.
C5_Witness ==
    /\ IsBeam /\ ret.status = "ok" /\ Len(ret.edges) = 2
    /\ LET T == Terminals(G, 1, ret.k)
       IN \E i \in DOMAIN T : Len(T[i]) = Len(ret.path) /\ T[i] # ret.path

(***************************************************************************)
(* Claims about edge resolution (specification SpecResolve)                *)
(***************************************************************************)
IsResolve == ret.op = "songs_to_edges"

\* Hops of a song path.
Hops(path) == IF path = <<>> THEN 0 ELSE Len(path) - 1

\* Every graph edge path[i] -> path[i+1] is excluded: there is none, or (past
\* the first hop) each ends before the previous selection's targetStart.
HopBlocked(path, sel, i) ==
    \A j \in 1 .. Len(edges[path[i]]) :
        edges[path[i]][j].target = path[i + 1] =>
            (i >= 2 /\ edges[path[i]][j].sourceEnd < sel[i - 1].targetStart)

\* ret.edges holds the selections made so far: the returned list, or on a
\* raise the local list, which the caller never sees.
RaisesExactlyWhenBlocked ==
    /\ ret.status = "ValueError" =>
          /\ Len(ret.edges) < Hops(ret.song_path)
          /\ HopBlocked(ret.song_path, ret.edges, Len(ret.edges) + 1)
    /\ ret.status = "ok" =>
          /\ Len(ret.edges) = Hops(ret.song_path)
          /\ \A i \in 1 .. Len(ret.edges) :
                /\ ~HopBlocked(ret.song_path, ret.edges, i)
                /\ EdgeOfGraph(ret.song_path, i)

\* C2 as stated: songs_to_edges raises exactly when some hop has every edge
\* excluded, and otherwise returns one edge per hop, whatever the selector.
C2_Original == IsResolve => RaisesExactlyWhenBlocked

\* C2, amended: with the default selector, or a selector that returns one of
\* the candidates it is given, songs_to_edges raises exactly when some hop has
\* every edge excluded and otherwise returns one edge per hop; a selector
\* that returns None makes it raise at the first hop.
C2_Amended ==
    IsResolve =>
        /\ ret.selector # "returns_none" => RaisesExactlyWhenBlocked
        /\ ret.selector = "returns_none" =>
              /\ ret.status = "ValueError" <=> Hops(ret.song_path) >= 1
              /\ ret.edges = <<>>

\* A raise on the second hop: the first hop was resolved and the graph has an
\* edge for the second, which ends before the first selection's targetStart.
C2_Witness ==
    /\ IsResolve /\ ret.selector = "default" /\ ret.status = "ValueError"
    /\ Len(ret.edges) = 1
    /\ ret.song_path[1] # ret.song_path[2]
    /\ \E j \in 1 .. Len(edges[ret.song_path[2]]) :
          edges[ret.song_path[2]][j].target = ret.song_path[3]

\* Positions of the edges source -> target that do not overlap the previous
\* selection.
Allowed(path, sel, i) ==
    {c \in 1 .. Len(edges[path[i]]) :
        /\ edges[path[i]][c].target = path[i + 1]
        /\ (i = 1 \/ edges[path[i]][c].sourceEnd >= sel[i - 1].targetStart)}

\* C3: with the default selector every selection is, among the allowed edges
\* of its hop, one of maximum sourceEnd and the earliest inserted of those;
\* so edge i connects path[i] to path[i+1] and each edge's sourceEnd is >=
\* the previous edge's targetStart.
C3_DefaultSelectsFirstMaxSourceEnd ==
    (IsResolve /\ ret.selector = "default") =>
        \A i \in 1 .. Len(ret.edges) :
            LET es == edges[ret.song_path[i]]
                A == Allowed(ret.song_path, ret.edges, i)
            IN /\ ret.idx[i] \in A
               /\ \A c \in A : es[c].sourceEnd <= es[ret.idx[i]].sourceEnd
               /\ \A c \in A : es[c].sourceEnd = es[ret.idx[i]].sourceEnd => ret.idx[i] <= c
               /\ EdgeOfGraph(ret.song_path, i)
               /\ i >= 2 => ret.edges[i].sourceEnd >= ret.edges[i - 1].targetStart

\* Two hops resolved, where the second hop had two allowed edges of equal,
\* maximal sourceEnd but different targetStart.
C3_Witness ==
    /\ IsResolve /\ ret.selector = "default" /\ ret.status = "ok"
    /\ Len(ret.edges) = 2
    /\ ret.song_path[1] # ret.song_path[2]
    /\ \E c \in Allowed(ret.song_path, ret.edges, 2) :
          /\ c # ret.idx[2]
          /\ edges[ret.song_path[2]][c].sourceEnd = ret.edges[2].sourceEnd
          /\ edges[ret.song_path[2]][c].targetStart # ret.edges[2].targetStart

\* a[i] is the position, in the edge list of path[i], of the edge taken for
\* hop i: each connects path[i] to path[i+1] and ends no earlier than the
\* previous one's targetStart.
IsValidAssignment(path, a) ==
    \A i \in 1 .. Hops(path) :
        /\ a[i] <= Len(edges[path[i]])
        /\ edges[path[i]][a[i]].target = path[i + 1]
        /\ i >= 2 => edges[path[i]][a[i]].sourceEnd >= edges[path[i - 1]][a[i - 1]].targetStart

HasValidAssignment(path) ==
    \E a \in [1 .. Hops(path) -> 1 .. MaxEdges] : IsValidAssignment(path, a)

\* Every hop but the last has at most one graph edge between its two songs.
SingleEdgedBeforeLast(path) ==
    \A i \in 1 .. Hops(path) - 1 :
        Cardinality({j \in 1 .. Len(edges[path[i]]) :
                        edges[path[i]][j].target = path[i + 1]}) <= 1

RaisesOnlyWithoutAssignment ==
    /\ ret.status = "ValueError" => ~HasValidAssignment(ret.song_path)
    /\ HasValidAssignment(ret.song_path) =>
          /\ ret.status = "ok"
          /\ IsValidAssignment(ret.song_path, ret.idx)

\* C21 as stated: songs_to_edges (default selector) raises for a song path
\* only if no assignment of one graph edge per hop satisfies the non-overlap
\* constraint along the whole path; whenever some valid assignment exists it
\* returns one.
C21_Original ==
    (IsResolve /\ ret.selector = "default") => RaisesOnlyWithoutAssignment

\* C21 amended: when every hop of the path but the last has at most one
\* graph edge between its two songs, songs_to_edges (default selector)
\* raises only if no assignment of one graph edge per hop satisfies the
\* non-overlap constraint along the whole path, and whenever some valid
\* assignment exists it returns one.
C21_Amended ==
    (IsResolve /\ ret.selector = "default" /\ SingleEdgedBeforeLast(ret.song_path)) =>
        RaisesOnlyWithoutAssignment

\* Two hops resolved where the second hop had two edges, one of them ending
\* before the first selection's targetStart.
C21_Witness ==
    /\ IsResolve /\ ret.selector = "default" /\ ret.status = "ok"
    /\ SingleEdgedBeforeLast(ret.song_path)
    /\ Len(ret.edges) = 2
    /\ ret.song_path[1] # ret.song_path[2]
    /\ \E c \in 1 .. Len(edges[ret.song_path[2]]) :
          /\ edges[ret.song_path[2]][c].target = ret.song_path[3]
          /\ edges[ret.song_path[2]][c].sourceEnd < ret.edges[1].targetStart

(***************************************************************************)
(* Claims about the pairing (specification SpecPairing)                    *)
(***************************************************************************)
IsPairing == ret.op = "find_xty_pairs_from_mix_groups"

\* The ordered pairs of candidate positions the claim lets through, and the
\* XTY pair each stands for.
QualifyingPairs(xs, tol) ==
    {q \in (1 .. Len(xs)) \X (1 .. Len(xs)) :
        /\ xs[q[1]].mix_song_path = xs[q[2]].mix_song_path
        /\ xs[q[1]].source_song_path # xs[q[2]].source_song_path
        /\ xs[q[2]].cross_in - xs[q[1]].cross_out > 5
        /\ xs[q[2]].cross_in - xs[q[1]].cross_out < tol}

PairOf(xs, q) ==
    [X_song_path |-> xs[q[1]].source_song_path, Y_song_path |-> xs[q[2]].source_song_path,
     mix_song_path |-> xs[q[1]].mix_song_path,
     Xoffset |-> xs[q[1]].offset, Yoffset |-> xs[q[2]].offset,
     Xcross_out |-> xs[q[1]].cross_out, Ycross_in |-> xs[q[2]].cross_in]

\* C4: the output holds, for every ordered pair (X, Y) of candidates with the
\* same mix, different songs and 5 < Y.cross_in - X.cross_out < tol, exactly
\* one XTY pair, and nothing else: each XTY pair occurs as often as there are
\* qualifying ordered pairs that produce it.
C4_OnePairPerQualifyingOrderedPair ==
    IsPairing =>
        LET Q == QualifyingPairs(inp.xt_pairs, inp.tol)
            Out == ret.pairs
        IN /\ Len(Out) = Cardinality(Q)
           /\ \A r \in Range(Out) \cup {PairOf(inp.xt_pairs, q) : q \in Q} :
                 Cardinality({i \in DOMAIN Out : Out[i] = r})
                     = Cardinality({q \in Q : PairOf(inp.xt_pairs, q) = r})

\* One X paired with two Y, while an ordered pair of the same mix and of
\* different songs whose gap is exactly 5 or exactly tol produced nothing.
C4_Witness ==
    /\ IsPairing
    /\ \E i, j \in DOMAIN ret.pairs :
          /\ ret.pairs[i].X_song_path = ret.pairs[j].X_song_path
          /\ ret.pairs[i].Xcross_out = ret.pairs[j].Xcross_out
          /\ ret.pairs[i].Ycross_in # ret.pairs[j].Ycross_in
    /\ \E a, b \in DOMAIN inp.xt_pairs :
          /\ inp.xt_pairs[a].mix_song_path = inp.xt_pairs[b].mix_song_path
          /\ inp.xt_pairs[a].source_song_path # inp.xt_pairs[b].source_song_path
          /\ inp.xt_pairs[b].cross_in - inp.xt_pairs[a].cross_out \in {5, inp.tol}

\* The candidates of the call that an output pair was built from.
PairedCandidates ==
    {c \in Range(inp.xt_pairs) :
        \E i \in DOMAIN ret.pairs :
            /\ c.mix_song_path = ret.pairs[i].mix_song_path
            /\ \/ /\ c.source_song_path = ret.pairs[i].X_song_path
                  /\ c.cross_out = ret.pairs[i].Xcross_out
                  /\ c.offset = ret.pairs[i].Xoffset
               \/ /\ c.source_song_path = ret.pairs[i].Y_song_path
                  /\ c.cross_in = ret.pairs[i].Ycross_in
                  /\ c.offset = ret.pairs[i].Yoffset}

\* C18: every XT_PAIR that exists or reaches the pairing has cross_in <
\* cross_out strictly: a candidate with cross_in >= cross_out cannot be
\* constructed and is never paired, so every candidate an output pair was
\* built from has cross_in < cross_out.
C18_CrossInBeforeCrossOut ==
    IsPairing => \A c \in PairedCandidates : c.cross_in < c.cross_out

(***************************************************************************)
(* Claims about the isometry step (specification SpecIsometry)             *)
(***************************************************************************)
IsIsometry == ret.op = "find_largest_isometry"

\* mix_start - song_start of the match with Python index i.
OffsetOf(matches, i) == matches[i + 1][3][1] - matches[i + 1][2]
HasMix(matches, i) == matches[i + 1][3] # <<>>

\* C6: every two members of the returned index subset are within tol of each
\* other: |(mix_b - mix_a) - (song_b - song_a)| <= tol.
C6_PairwiseWithinTol ==
    IsIsometry =>
        \A a, b \in Range(ret.best_indices) :
            (HasMix(inp.matches, a) /\ HasMix(inp.matches, b)) =>
                Abs(OffsetOf(inp.matches, b) - OffsetOf(inp.matches, a)) <= inp.tol

\* The subsets S the claim speaks of: non-empty, one common offset, and every
\* match outside with an offset more than tol away from it.
KnownSubsets(matches, tol) ==
    {S \in SUBSET (0 .. Len(matches) - 1) :
        /\ S # {}
        /\ \A s \in S : HasMix(matches, s)
        /\ \A s, u \in S : OffsetOf(matches, s) = OffsetOf(matches, u)
        /\ \A o \in (0 .. Len(matches) - 1) \ S :
              /\ HasMix(matches, o)
              /\ \A s \in S : Abs(OffsetOf(matches, o) - OffsetOf(matches, s)) > tol}

\* C7 as stated: whatever the matches outside S, exactly S is returned.
C7_Original ==
    IsIsometry =>
        \A S \in KnownSubsets(inp.matches, inp.tol) : Range(ret.best_indices) = S

\* The matches outside S within tol of the outside match o (o included).
OutsideCluster(matches, tol, S, o) ==
    {p \in (0 .. Len(matches) - 1) \ S :
        Abs(OffsetOf(matches, p) - OffsetOf(matches, o)) <= tol}

\* C7, amended: exactly S is returned provided every match outside S has
\* fewer than |S| outside matches within tol of it (itself included).
C7_Amended ==
    IsIsometry =>
        \A S \in KnownSubsets(inp.matches, inp.tol) :
            (\A o \in (0 .. Len(inp.matches) - 1) \ S :
                Cardinality(OutsideCluster(inp.matches, inp.tol, S, o)) < Cardinality(S))
            => Range(ret.best_indices) = S

\* A known subset of two matches returned, with two matches outside it that
\* are more than tol away from it and from each other.
C7_Witness ==
    /\ IsIsometry
    /\ \E S \in KnownSubsets(inp.matches, inp.tol) :
          /\ Cardinality(S) = 2
          /\ Len(inp.matches) = 4
          /\ \A o \in (0 .. 3) \ S :
                Cardinality(OutsideCluster(inp.matches, inp.tol, S, o)) = 1
          /\ Range(ret.best_indices) = S

\* Two matches that both have a mix frame and whose offsets differ by at
\* most tol.
WithinTol(matches, tol, a, b) ==
    /\ HasMix(matches, a)
    /\ HasMix(matches, b)
    /\ Abs(OffsetOf(matches, b) - OffsetOf(matches, a)) <= tol

\* The subsets of the matches that are pairwise within tolerance.
PairwiseSubsets(matches, tol) ==
    {S \in SUBSET (0 .. Len(matches) - 1) :
        \A a, b \in S : a # b => WithinTol(matches, tol, a, b)}

\* The candidate subset of anchor i: i and every match within tol of it.
Star(matches, tol, i) ==
    {i} \cup {j \in 0 .. Len(matches) - 1 : j # i /\ WithinTol(matches, tol, i, j)}

\* C25: find_largest_isometry returns a subset at least as large as every
\* subset of the matches that is pairwise within tolerance; and when several
\* anchors yield candidate subsets of the same maximal size it returns the
\* one found first, that of the lowest such anchor index.
C25_LargestAndFirstFound ==
    IsIsometry =>
        /\ \A S \in PairwiseSubsets(inp.matches, inp.tol) :
              Len(ret.best_indices) >= Cardinality(S)
        /\ inp.matches # <<>> =>
              LET anchor == ret.best_indices[1]
                  size(i) == Cardinality(Star(inp.matches, inp.tol, i))
              IN /\ Range(ret.best_indices) = Star(inp.matches, inp.tol, anchor)
                 /\ Len(ret.best_indices) = size(anchor)
                 /\ \A i \in 0 .. Len(inp.matches) - 1 :
                       /\ size(i) <= size(anchor)
                       /\ size(i) = size(anchor) => anchor <= i
                 /\ ret.anchor_song_start = <<inp.matches[anchor + 1][2]>>
                 /\ ret.anchor_mix_start = inp.matches[anchor + 1][3]

\* Anchors 0 and 2 both yield two matches, different ones, no anchor yields
\* more, and the subset of anchor 0 is returned.
C25_Witness ==
    /\ IsIsometry
    /\ Len(inp.matches) = 4
    /\ Star(inp.matches, inp.tol, 0) = {0, 1}
    /\ Star(inp.matches, inp.tol, 2) = {2, 3}
    /\ ret.best_indices = <<0, 1>>

(***************************************************************************)
(* Claims about recognize_song_in_mix (specification SpecRecognize)        *)
(***************************************************************************)
IsRecognize == ret.op = "recognize_song_in_mix"

\* C8: recognize_song_in_mix never raises on a no-match condition: a peak
\* below the threshold, in the whole-song match or in the reference-chunk
\* match of fine_tune_alignment, yields a result dict with a success flag.
\* (The OSError of a path that cannot be examined and the IndexError of a
\* match too short to be cut into chunks are no such conditions.)
C8_NoMatchReturnsStatusDict ==
    (IsRecognize /\ ret.raised \notin {"OSError", "IndexError"}) =>
        /\ ret.raised = "none"
        /\ ret.returns => ret.result.success \in BOOLEAN

(***************************************************************************)
(* Claims about create_fingerprint (specification SpecFingerprint)         *)
(***************************************************************************)
IsCreate == ret.op = "create_fingerprint"

AudioUnusable == files[ret.audio_file].kind \in {"missing", "undecodable"}

\* C10: create_fingerprint never raises, and a missing or undecodable audio
\* file gives (None, None) whatever the cache holds.
C10_NeverRaises ==
    IsCreate =>
        /\ ret.raised = "none"
        /\ AudioUnusable => ret.result = NoFingerprint

(***************************************************************************)
(* Claims about chunk_match (specification SpecChunkMatch)                 *)
(***************************************************************************)
\* C9: whatever chunk_match returns, without a rough match and without an
\* isometric subset included, has the four components (song_start,
\* song_end, mix_start, mix_end), so the caller's four-value unpacking does
\* not fail.
C9_SentinelHasFourComponents ==
    /\ call.pc = "returned" => Len(call.value) = 4
    /\ ret.op = "main" => ret.raised = "none"

\* C26: find_largest_isometry returns a non-empty index list for the
\* non-empty list of chunk matches, so once a rough match exists and n_chunks
\* >= 1, chunk_match does not take the 'No isometric block found' branch: it
\* goes on to expand_isometry.
C26_SentinelBranchUnreachable ==
    [][(call.pc = "matches" /\ call.n_chunks >= 1) => call'.pc \in {"matches", "expand_back"}]_vars

\* expand_isometry was entered from a block of one chunk match.
C26_Witness ==
    /\ call.pc = "expand_back"
    /\ call.s = call.last_chunk_start
    /\ call.m = call.last_mix_start

(***************************************************************************)
(* Consecutive create_fingerprint calls; ret is the log of the calls made  *)
(***************************************************************************)
MaxCalls == 2

InitCalls ==
    /\ nodes = EmptyGraph.nodes
    /\ edges = EmptyGraph.edges
    /\ inp = None
    /\ ret = <<>>
    /\ files \in [AudioPaths -> FileStates]
    /\ cache \in [entries : [CacheKeys -> EntryStates], writable : BOOLEAN]
    /\ call = Idle

CreateFingerprintAgain ==
    /\ Len(ret) < MaxCalls
    /\ \E audio_file \in AudioPaths :
        LET out == create_fingerprint(cache, audio_file)
            key == get_fingerprint_path(audio_file)
        IN /\ ret' = Append(ret, [audio_file |-> audio_file,
                                  entry |-> cache.entries[key],
                                  raised |-> out.raised, result |-> out.result,
                                  saved |-> out.cache.entries[key]])
           /\ cache' = out.cache
           /\ UNCHANGED <<nodes, edges, inp, files, call>>

NextCalls == CreateFingerprintAgain

SpecCalls == InitCalls /\ [][NextCalls]_vars

(***************************************************************************)
(* Claims about consecutive create_fingerprint calls (SpecCalls)           *)
(***************************************************************************)
\* Call i found no readable cache entry, a decodable file and a writable cache.
Computes(i) ==
    /\ ret[i].entry.kind # "npz"
    /\ files[ret[i].audio_file].kind = "audio"
    /\ cache.writable

FreshFingerprint(audio_file) ==
    <<Some(chroma_stft(files[audio_file].rec)), Some(NativeRate(files[audio_file].rec))>>

\* C11: two consecutive create_fingerprint calls on the same unchanged audio
\* path return the same chroma matrix and the same sample rate; when the
\* first call computes (no readable entry, decodable file, writable cache) it
\* returns the features of the file and writes them under the file's
\* basename, and the second call returns that entry, equal to the computed
\* value.
C11_CacheRoundTrip ==
    \A i \in 1 .. Len(ret) - 1 :
        ret[i + 1].audio_file = ret[i].audio_file =>
            /\ ret[i + 1].raised = ret[i].raised
            /\ ret[i + 1].result = ret[i].result
            /\ Computes(i) =>
                  /\ ret[i].result = FreshFingerprint(ret[i].audio_file)
                  /\ ret[i].saved = Npz(ret[i].result[1][1], ret[i].result[2][1])
                  /\ ret[i + 1].entry = ret[i].saved
                  /\ ret[i + 1].result = load_fingerprint(cache,
                                             get_fingerprint_path(ret[i].audio_file))

\* A first call computed the longer recording over an unreadable entry and a
\* second call on the same path was served from the cache.
C11_Witness ==
    /\ Len(ret) = 2
    /\ ret[1].audio_file = ret[2].audio_file
    /\ Computes(1)
    /\ ret[1].entry = Unreadable
    /\ files[ret[1].audio_file] = Recording(2)
    /\ ret[2].entry.kind = "npz"
    /\ ret[2].result = ret[1].result

(***************************************************************************)
(* The two rough matchers on one correlation signal                        *)
(***************************************************************************)
MaxLags == 3
RoughScores == {CONFIDENCE_THRESHOLD_ROUGH - 1, CONFIDENCE_THRESHOLD_ROUGH,
                CONFIDENCE_THRESHOLD_ROUGH + 1}
RoughSongFrames == {1, 2}
RoughRates == {PyNone, Some(1024), Some(22050)}
HopLengths == {HOP_LENGTH, 256}

InitRough ==
    /\ nodes = EmptyGraph.nodes
    /\ edges = EmptyGraph.edges
    /\ inp \in [time_correlation : UNION {[1 .. n -> RoughScores] : n \in 1 .. MaxLags},
                song_frames : RoughSongFrames, sr : RoughRates,
                hop_length : HopLengths]
    /\ ret = None
    /\ NoAudio

\* AudioRecognizer.find_rough_match(song_chroma, mix_chroma, sr)
FindRoughMatch ==
    /\ ret' = [op |-> "find_rough_match", hop_length |-> HOP_LENGTH,
               raised |-> "none",
               result |-> find_rough_match(inp.time_correlation, inp.song_frames, inp.sr)]
    /\ UNCHANGED <<nodes, edges, inp, files, cache, call>>

\* find_whole_song_in_mix(song_chroma, mix_chroma, sr, hop_length), called
\* with the sample rate of the mix.
FindWholeSongInMix ==
    /\ inp.sr # PyNone
    /\ ret' = [op |-> "find_whole_song_in_mix", hop_length |-> inp.hop_length,
               raised |-> "none",
               result |-> find_whole_song_in_mix(inp.time_correlation, inp.song_frames,
                                                 inp.sr[1], inp.hop_length)]
    /\ UNCHANGED <<nodes, edges, inp, files, cache, call>>

NextRough == FindRoughMatch \/ FindWholeSongInMix

SpecRough == InitRough /\ [][NextRough]_vars

(***************************************************************************)
(* Claims about the rough matchers (specification SpecRough)               *)
(***************************************************************************)
IsRough == ret.op \in {"find_rough_match", "find_whole_song_in_mix"}

\* The peak of the channel-summed cross-correlation.
Peak == CHOOSE m \in Range(inp.time_correlation) :
            \A x \in Range(inp.time_correlation) : x <= m

\* C12: called with a sample rate, the rough matcher returns (None, None),
\* without raising, exactly when the peak of the channel-summed
\* cross-correlation is strictly below the confidence threshold 10000; a
\* peak equal to the threshold is accepted as a match.
C12_NoMatchExactlyBelowThreshold ==
    (IsRough /\ inp.sr # PyNone) =>
        /\ ret.raised = "none"
        /\ ret.result = NoFingerprint <=> Peak < CONFIDENCE_THRESHOLD_ROUGH
        /\ Peak = CONFIDENCE_THRESHOLD_ROUGH =>
              (ret.result[1] # PyNone /\ ret.result[2] # PyNone)

\* Each matcher accepted a signal whose peak is exactly the threshold.
C12_Witness ==
    /\ IsRough
    /\ inp.sr # PyNone
    /\ Peak = CONFIDENCE_THRESHOLD_ROUGH
    /\ Len(inp.time_correlation) = 3
    /\ ret.result[1] # PyNone

\* end - start as the caller computes it (audio_recognizer.py line 219)
Span == Difference(ret.result[2][1], ret.result[1][1], inp.sr[1])

\* start is the time of a frame at which the summed correlation is maximal
StartsAtPeak ==
    \E f \in 0 .. Len(inp.time_correlation) - 1 :
        /\ inp.time_correlation[f + 1] = Peak
        /\ SameDouble(ret.result[1][1], Quotient(f * ret.hop_length, inp.sr[1]))

\* v is the time of n samples to within half a sample period
WithinASample(v, n) ==
    /\ v.n = n
    /\ v.t = 0 \/ (v.k > 30 /\ -Pow2(30) < v.t /\ v.t < Pow2(30))

\* C13 as stated: for every rough match returned, end - start equals the
\* song's duration, the double song frames x hop_length / sr for the sr
\* passed in, and start is the time of a frame at which the summed
\* correlation is maximal.
C13_Original ==
    (IsRough /\ ret.result # NoFingerprint) =>
        /\ SameDouble(Span, Quotient(inp.song_frames * ret.hop_length, inp.sr[1]))
        /\ StartsAtPeak

\* C13, amended: for every rough match returned, end - start equals the
\* song's duration, song frames x hop_length / sr for the sr passed in, to
\* within half a sample period 1 / sr (the end is the rounded sum of the
\* start and the duration), and start is the time of a frame at which the
\* summed correlation is maximal.
C13_MatchSpansSongDuration ==
    (IsRough /\ ret.result # NoFingerprint) =>
        /\ WithinASample(Span, inp.song_frames * ret.hop_length)
        /\ StartsAtPeak

\* A match of a two-frame song that starts after the first frame of the
\* mix, where end - start is not the double of the duration.
C13_Witness ==
    /\ IsRough
    /\ ret.result # NoFingerprint
    /\ inp.song_frames = 2
    /\ ret.result[1][1].n > 0
    /\ ~SameDouble(Span, Quotient(2 * ret.hop_length, inp.sr[1]))
    /\ WithinASample(Span, 2 * ret.hop_length)

(***************************************************************************)
(* The correlation of the rough matchers on a synthetic mix                *)
(* (audio_recognizer.py 155-162, recognizer.py 17-21).  A chroma matrix is *)
(* a sequence of frames, each frame a tuple of one level per pitch class.  *)
(***************************************************************************)
MaxChannels == 2
MaxSongLen == 3
MaxSilence == 3
Channels == 1 .. MaxChannels
Levels == {0, 2, 3}
Chromas(n) == [1 .. n -> [Channels -> Levels]]

RECURSIVE Sigma(_, _)
Sigma(f, n) == IF n = 0 THEN 0 ELSE f[n] + Sigma(f, n - 1)

\* np.sum over the whole matrix, and its number of elements
Total(chroma) == Sigma([t \in 1 .. Len(chroma) |-> Sigma(chroma[t], MaxChannels)],
                       Len(chroma))
Size(chroma) == Len(chroma) * MaxChannels

\* np.std(chroma) = 0: every element equals the mean
ZeroStd(chroma) ==
    \A t \in 1 .. Len(chroma), c \in Channels : Size(chroma) * chroma[t][c] = Total(chroma)

\* (chroma - np.mean(chroma)) / np.std(chroma), times the positive number
\* Size(chroma) * np.std(chroma), which keeps the values integers and leaves
\* the order of the correlation scores as it is.
Normalised(chroma) ==
    [t \in 1 .. Len(chroma) |->
        [c \in Channels |-> Size(chroma) * chroma[t][c] - Total(chroma)]]

\* np.sum(correlate(mix_norm, song_norm, mode="valid"), axis=0), the mix at
\* least as long as the song: one score per lag of the song in the mix.
summed_correlation(mix_norm, song_norm) ==
    [lag \in 1 .. Len(mix_norm) - Len(song_norm) + 1 |->
        Sigma([t \in 1 .. Len(song_norm) |->
                  Sigma([c \in Channels |-> mix_norm[lag + t - 1][c] * song_norm[t][c]],
                        MaxChannels)],
              Len(song_norm))]

\* best_match_frame of lines 155-162, the set of the frames np.argmax can
\* return.  The scores are computed in doubles through an FFT: of lags
\* whose exact scores tie at the maximum, rounding decides which is the
\* greater, so each of them can be the argmax.  A zero standard deviation
\* makes every score NaN, and np.argmax of an all-NaN signal is 0.
best_match_frame(song_chroma, mix_chroma) ==
    IF ZeroStd(song_chroma) \/ ZeroStd(mix_chroma) THEN {0}
    ELSE LET time_correlation == summed_correlation(Normalised(mix_chroma),
                                                    Normalised(song_chroma))
         IN {lag - 1 : lag \in {l \in DOMAIN time_correlation :
                                   \A m \in DOMAIN time_correlation :
                                       time_correlation[m] <= time_correlation[l]}}

Silence(n) == [t \in 1 .. n |-> [c \in Channels |-> 0]]

InitSelfMatch ==
    /\ nodes = EmptyGraph.nodes
    /\ edges = EmptyGraph.edges
    /\ inp \in [song : UNION {Chromas(n) : n \in 1 .. MaxSongLen},
                T : 0 .. MaxSilence, tail : 0 .. 1]
    /\ ~ZeroStd(inp.song)               \* the song is not constant
    /\ ret = None
    /\ NoAudio

\* find_rough_match on the mix silence(T) + song + silence(tail)
SelfMatch ==
    /\ \E frame \in best_match_frame(inp.song,
                                      Silence(inp.T) \o inp.song \o Silence(inp.tail)) :
          ret' = [op |-> "self_match", best_match_frame |-> frame]
    /\ UNCHANGED <<nodes, edges, inp, files, cache, call>>

NextSelfMatch == SelfMatch

SpecSelfMatch == InitSelfMatch /\ [][NextSelfMatch]_vars

(***************************************************************************)
(* Claims about the self-match (specification SpecSelfMatch)               *)
(***************************************************************************)
\* C14: for a mix formed as silence (T frames) + the song's fingerprint +
\* silence, the frame maximising the summed correlation of the normalised
\* mix against the normalised song is within one frame of T, for every
\* song fingerprint.
C14_SelfMatchFindsT ==
    ret.op = "self_match" =>
        /\ ret.best_match_frame - inp.T <= 1
        /\ inp.T - ret.best_match_frame <= 1

(***************************************************************************)
(* make_edges and get_ATB_pairs on one graph; inp is the batch of          *)
(* candidates, at most one per (song, mix), ret the log of the calls made  *)
(***************************************************************************)
MaxBatchCalls == 2
Slots == <<<<"A", "m1">>, <<"B", "m1">>, <<"C", "m1">>,
           <<"A", "m2">>, <<"B", "m2">>, <<"C", "m2">>>>
Intervals == {<<0, 1>>, <<7, 10>>, <<52, 60>>}       \* (cross_in, cross_out)
Crossfades == {DEFAULT_CROSSFADE, 0}

\* The candidates of an assignment of intervals to slots, in slot order
\* (<<>> leaves the slot out).
RECURSIVE BatchOf(_, _)
BatchOf(a, i) ==
    IF i > Len(Slots) THEN <<>>
    ELSE (IF a[i] = <<>> THEN <<>>
          ELSE <<XT_PAIR(Slots[i][1], Slots[i][2], 0, a[i][1], a[i][2])>>)
         \o BatchOf(a, i + 1)

Reverse(s) == [i \in 1 .. Len(s) |-> s[Len(s) + 1 - i]]

Batches ==
    {BatchOf(a, 1) : a \in [1 .. Len(Slots) -> Intervals \cup {<<>>}]}
    \cup {Reverse(BatchOf(a, 1)) : a \in [1 .. Len(Slots) -> Intervals \cup {<<>>}]}

InitBatch ==
    /\ nodes = EmptyGraph.nodes
    /\ edges = EmptyGraph.edges
    /\ inp \in Batches
    /\ ret = <<>>
    /\ NoAudio

\* graph.make_edges(XTpairs, crossfade_length); returns None.
MakeEdges ==
    /\ Len(ret) < MaxBatchCalls
    /\ \E crossfade_length \in Crossfades :
        /\ SetGraph(make_edges(G, inp, crossfade_length))
        /\ ret' = Append(ret, [op |-> "make_edges", crossfade_length |-> crossfade_length,
                               raised |-> "none", pairs |-> <<>>])
    /\ UNCHANGED <<inp, files, cache, call>>

\* graph.get_ATB_pairs(XTpairs)
GetATBPairs ==
    /\ Len(ret) < MaxBatchCalls
    /\ LET out == get_ATB_pairs(G, inp)
       IN /\ SetGraph(out.graph)
          /\ ret' = Append(ret, [op |-> "get_ATB_pairs",
                                 crossfade_length |-> DEFAULT_CROSSFADE,
                                 raised |-> out.raised, pairs |-> out.pairs])
    /\ UNCHANGED <<inp, files, cache, call>>

NextBatch == MakeEdges \/ GetATBPairs

SpecBatch == InitBatch /\ [][NextBatch]_vars

(***************************************************************************)
(* Claims about make_edges and get_ATB_pairs (specification SpecBatch)     *)
(***************************************************************************)
\* The edge the claim expects for an XTY pair.
EdgeFor(pair, crossfade_length) ==
    [source |-> pair.X_song_path, target |-> pair.Y_song_path,
     sourceEnd |-> pair.Xcross_out + crossfade_length, targetStart |-> pair.Ycross_in,
     mix_id |-> pair.mix_song_path, xty |-> pair]

FirstMakeEdges == Len(ret) = 1 /\ ret[1].op = "make_edges"

\* C15: on a fresh graph, make_edges(candidates, crossfade_length) adds
\* exactly one edge per XTY pair of the pairing, in pairing order under its X
\* song, with source X, target Y, the pair's mix, sourceEnd = Xcross_out +
\* crossfade_length and targetStart = Ycross_in; parallel edges are all
\* kept, and the nodes are exactly the songs that occur in some pair.
C15_MakeEdgesOneEdgePerPair ==
    FirstMakeEdges =>
        LET pairs == find_xty_pairs_from_mix_groups(inp, DEFAULT_TOL)
            From(s) == SelectSeq(pairs, LAMBDA p : p.X_song_path = s)
        IN /\ \A s \in Songs :
                 edges[s] = [i \in 1 .. Len(From(s)) |->
                                EdgeFor(From(s)[i], ret[1].crossfade_length)]
           /\ EdgeCount(G) = Len(pairs)
           /\ Range(nodes) = {pairs[i].X_song_path : i \in DOMAIN pairs}
                                 \cup {pairs[i].Y_song_path : i \in DOMAIN pairs}
           /\ NoRepeat(nodes)

\* make_edges with the default crossfade kept two parallel edges A -> B, one
\* per mix, on a batch that also pairs B with C.
C15_Witness ==
    /\ FirstMakeEdges
    /\ ret[1].crossfade_length = DEFAULT_CROSSFADE
    /\ \E i, j \in DOMAIN edges["A"] :
          /\ edges["A"][i].target = "B" /\ edges["A"][j].target = "B"
          /\ edges["A"][i].mix_id = "m1" /\ edges["A"][j].mix_id = "m2"
          /\ edges["A"][i].sourceEnd = edges["A"][i].xty.Xcross_out + 5
    /\ \E k \in DOMAIN edges["B"] : edges["B"][k].target = "C"
    /\ Range(nodes) = Songs

SingleMix == \A i, j \in DOMAIN inp : inp[i].mix_song_path = inp[j].mix_song_path

\* C20 as stated: for any batch with one candidate per (song, mix) and
\* cross_in < cross_out, spanning any number of mixes, get_ATB_pairs returns
\* a possibly empty XTY sequence without raising.
C20_NeverRaises ==
    \A i \in DOMAIN ret : ret[i].op = "get_ATB_pairs" => ret[i].raised = "none"

\* C20 amended: for any batch with one candidate per (song, mix) and
\* cross_in < cross_out whose candidates all lie in one mix, get_ATB_pairs
\* returns a possibly empty XTY sequence without raising: the song path
\* chosen by beam_search is resolved into edges by songs_to_edges.
C20_SingleMixNeverRaises ==
    SingleMix =>
        \A i \in DOMAIN ret : ret[i].op = "get_ATB_pairs" => ret[i].raised = "none"

\* get_ATB_pairs on three candidates of one mix returned the chain
\* A -> B -> C.
C20_Witness ==
    /\ SingleMix
    /\ Len(inp) = 3
    /\ Len(ret) = 1
    /\ ret[1].op = "get_ATB_pairs"
    /\ ret[1].raised = "none"
    /\ Len(ret[1].pairs) = 2
    /\ ret[1].pairs[1].X_song_path = "A" /\ ret[1].pairs[1].Y_song_path = "B"
    /\ ret[1].pairs[2].X_song_path = "B" /\ ret[1].pairs[2].Y_song_path = "C"

(***************************************************************************)
(* bf(graph) = beam_search(graph, k=9999) (graphAlgo.py 6-7) on graphs     *)
(* whose edges all carry time 0                                            *)
(***************************************************************************)
BF_K == 9999
MaxBfEdges == 4

AddTransitionBf ==
    /\ EdgeCount(G) < MaxBfEdges
    /\ \E s \in Songs, t \in Songs :
        /\ SetGraph(add_transition(G, s, t, 0, 0, "m1", DirectXTY(s, t, 0, 0, "m1")))
        /\ ret' = None
        /\ UNCHANGED <<inp, files, cache, call>>

Bf ==
    /\ ret' = beam_search(G, BF_K)
    /\ UNCHANGED <<nodes, edges, inp, files, cache, call>>

NextExhaustive == AddSong \/ AddTransitionBf \/ Bf

SpecExhaustive == InitGraph /\ [][NextExhaustive]_vars

(***************************************************************************)
(* Claims about the exhaustive search (specification SpecExhaustive)       *)
(***************************************************************************)
\* The simple paths of the graph: songs of the graph, none twice, each
\* followed by a song one of its out-edges leads to.
SimplePaths ==
    {p \in BSeq(Range(nodes), Cardinality(Songs)) :
        /\ p # <<>>
        /\ NoRepeat(p)
        /\ \A i \in 1 .. Len(p) - 1 :
              \E j \in DOMAIN edges[p[i]] : edges[p[i]][j].target = p[i + 1]}

\* C16: with the beam width of bf, k = 9999, at least the number of partial
\* paths of every level, beam_search is exhaustive: the song path it
\* selects is a simple path of the graph with the largest song count of all
\* (the empty path on the empty graph).
C16_WideBeamIsExhaustive ==
    (ret.op = "beam_search" /\ ret.k = BF_K) =>
        /\ \A p \in SimplePaths : Len(p) <= Len(ret.path)
        /\ ret.path \in SimplePaths \cup {<<>>}

\* bf selected a path through all three songs that does not start at the
\* first node, on a graph with four edges.
C16_Witness ==
    /\ ret.op = "beam_search"
    /\ ret.k = BF_K
    /\ Len(ret.path) = 3
    /\ ret.path[1] # nodes[1]
    /\ EdgeCount(G) = MaxBfEdges

(***************************************************************************)
(* get_ATB_pairs called repeatedly on one graph of five songs; inp is a    *)
(* sub-batch of one batch over four mixes, ret the log of the calls        *)
(***************************************************************************)
RepeatSongs == Songs \cup {"D", "E"}

\* A starts every mix; B follows A in m1, m2 and m3 and C follows B in m1
\* and m2; in m4 the songs D, E and C follow A one after the other.
FullBatch ==
    <<XT_PAIR("A", "m1", 0, 0, 1), XT_PAIR("B", "m1", 0, 10, 40), XT_PAIR("C", "m1", 0, 50, 60),
      XT_PAIR("A", "m2", 0, 0, 1), XT_PAIR("B", "m2", 0, 10, 40), XT_PAIR("C", "m2", 0, 50, 60),
      XT_PAIR("A", "m3", 0, 0, 1), XT_PAIR("B", "m3", 0, 10, 40),
      XT_PAIR("A", "m4", 0, 0, 1), XT_PAIR("D", "m4", 0, 10, 40),
      XT_PAIR("E", "m4", 0, 50, 90), XT_PAIR("C", "m4", 0, 100, 110)>>

RECURSIVE SubBatch(_, _)
SubBatch(keep, i) ==
    IF i > Len(FullBatch) THEN <<>>
    ELSE (IF keep[i] THEN <<FullBatch[i]>> ELSE <<>>) \o SubBatch(keep, i + 1)

InitRepeat ==
    /\ nodes = <<>>
    /\ edges = [s \in RepeatSongs |-> <<>>]
    /\ inp \in {SubBatch(keep, 1) : keep \in [1 .. Len(FullBatch) -> BOOLEAN]}
    /\ ret = <<>>
    /\ NoAudio

NextRepeat == GetATBPairs

SpecRepeat == InitRepeat /\ [][NextRepeat]_vars

(***************************************************************************)
(* Claims about repeated get_ATB_pairs calls (specification SpecRepeat)    *)
(***************************************************************************)
\* C17: a second get_ATB_pairs call with the same candidates on the same
\* graph returns the same XTY sequence as the first call.
C17_SecondCallSameResult ==
    (Len(ret) = 2 /\ ret[1].op = "get_ATB_pairs" /\ ret[2].op = "get_ATB_pairs") =>
        /\ ret[2].raised = ret[1].raised
        /\ ret[2].pairs = ret[1].pairs

(***************************************************************************)
(* Two workers in create_fingerprint on the same audio file, sharing the   *)
(* cache without a lock.  call[w] is worker w's position and locals, inp   *)
(* the audio file.  np.savez truncates the file when it opens it and the   *)
(* file is a complete archive only when the last writer has finished; a    *)
(* read in between fails in np.load.                                       *)
(***************************************************************************)
Workers == {1, 2}

InitWorkers ==
    /\ nodes = EmptyGraph.nodes
    /\ edges = EmptyGraph.edges
    /\ inp \in [audio_file : AudioPaths]
    /\ ret = <<>>
    /\ files \in [AudioPaths -> FileStates]
    /\ cache \in [entries : [CacheKeys -> EntryStates], writable : BOOLEAN]
    /\ call = [w \in Workers |-> [pc |-> "start", result |-> NoFingerprint]]

Saving(w) == call[w].pc = "saving"

\* lines 60-68: load_fingerprint, returned if both parts are there
ReadCache(w) ==
    /\ call[w].pc = "start"
    /\ LET preloaded_fingerprint ==
               load_fingerprint(cache, get_fingerprint_path(inp.audio_file))
       IN call' = [call EXCEPT ![w] =
                      IF preloaded_fingerprint[1] # PyNone /\ preloaded_fingerprint[2] # PyNone
                      THEN [pc |-> "done", result |-> preloaded_fingerprint]
                      ELSE [pc |-> "decode", result |-> NoFingerprint]]
    /\ UNCHANGED <<nodes, edges, inp, ret, files, cache>>

\* lines 72-82: audio_path.exists(), whose OSError ends the call, then
\* librosa.load and chroma_stft
Decode(w) ==
    /\ call[w].pc = "decode"
    /\ LET loaded == librosa_load(inp.audio_file)
       IN call' = [call EXCEPT ![w] =
                      IF files[inp.audio_file].kind = "unreachable"
                      THEN [pc |-> "raised", result |-> NoFingerprint]
                      ELSE IF files[inp.audio_file].kind = "missing" \/ loaded.raised
                      THEN [pc |-> "done", result |-> NoFingerprint]
                      ELSE [pc |-> "save",
                            result |-> <<Some(chroma_stft(loaded.y)), Some(loaded.sr)>>]]
    /\ UNCHANGED <<nodes, edges, inp, ret, files, cache>>

\* lines 84-86, np.savez opening the file: it is truncated, or the open
\* fails and save_fingerprint returns False.
BeginSave(w) ==
    /\ call[w].pc = "save"
    /\ IF cache.writable
       THEN /\ cache' = [cache EXCEPT
                            !.entries[get_fingerprint_path(inp.audio_file)] = Unreadable]
            /\ call' = [call EXCEPT ![w].pc = "saving"]
       ELSE /\ call' = [call EXCEPT ![w].pc = "done"]
            /\ UNCHANGED cache
    /\ UNCHANGED <<nodes, edges, inp, ret, files>>

\* np.savez finishing, and the return of line 88.  While the other worker
\* is still writing the file is, or is not yet, a complete archive.  ret
\* is the log of finished writes.
EndSave(w) ==
    /\ Saving(w)
    /\ LET saved == save_fingerprint(cache, call[w].result[1], call[w].result[2],
                                     get_fingerprint_path(inp.audio_file)).cache
       IN \/ /\ cache' = saved
             /\ ret' = Append(ret, [worker |-> w, complete |-> TRUE])
          \/ /\ \E v \in Workers \ {w} : Saving(v)
             /\ cache' = [cache EXCEPT
                             !.entries[get_fingerprint_path(inp.audio_file)] = Unreadable]
             /\ ret' = Append(ret, [worker |-> w, complete |-> FALSE])
    /\ call' = [call EXCEPT ![w].pc = "done"]
    /\ UNCHANGED <<nodes, edges, inp, files>>

NextWorkers == \E w \in Workers : ReadCache(w) \/ Decode(w) \/ BeginSave(w) \/ EndSave(w)

SpecWorkers == InitWorkers /\ [][NextWorkers]_vars

(***************************************************************************)
(* Claims about concurrent create_fingerprint (specification SpecWorkers)  *)
(***************************************************************************)
AllDone == \A w \in Workers : call[w].pc \in {"done", "raised"}

\* C19: when two workers run create_fingerprint concurrently on the same
\* audio file against the shared cache, without locking, every interleaving
\* of their read, compute and write steps ends with both workers returning
\* the same result (or both raising); when that is a fingerprint and the
\* cache can be written, the cache holds that same matrix and sample rate.
C19_ConcurrentWorkersAgree ==
    AllDone =>
        /\ \A v, w \in Workers : call[v].pc = call[w].pc /\ call[v].result = call[w].result
        /\ \A w \in Workers :
              (call[w].result # NoFingerprint /\ cache.writable) =>
                  cache.entries[get_fingerprint_path(inp.audio_file)]
                      = Npz(call[w].result[1][1], call[w].result[2][1])

\* Both workers missed the cache, both computed and both wrote; the first
\* to finish left the file incomplete, the second completed it.
C19_Witness ==
    /\ AllDone
    /\ Len(ret) = 2
    /\ ~ret[1].complete
    /\ files[inp.audio_file] = Recording(2)
    /\ \A w \in Workers : call[w].result = FreshFingerprint(inp.audio_file)
    /\ cache.entries[get_fingerprint_path(inp.audio_file)]
           = Npz(chroma_stft(2), NativeRate(2))

(***************************************************************************)
(* beam_search on the graph make_edges builds from the candidates of one   *)
(* mix, one per song (test_graph.py 44-91); inp is the candidate list,     *)
(* call tells whether make_edges has run.                                  *)
(***************************************************************************)
MaxChainK == 3
ChainSongs == <<"A", "B", "C", "D">>
ChainIntervals == {<<0, 1>>, <<7, 10>>, <<16, 16>>, <<22, 30>>, <<52, 60>>}

\* The candidates of an assignment of intervals to songs, in song order
\* (<<>> leaves the song out).
RECURSIVE ChainOf(_, _)
ChainOf(a, i) ==
    IF i > Len(ChainSongs) THEN <<>>
    ELSE (IF a[i] = <<>> THEN <<>>
          ELSE <<XT_PAIR(ChainSongs[i], "m1", 0, a[i][1], a[i][2])>>)
         \o ChainOf(a, i + 1)

ChainBatches ==
    {ChainOf(a, 1) : a \in [1 .. Len(ChainSongs) -> ChainIntervals \cup {<<>>}]}
    \cup {Reverse(ChainOf(a, 1)) : a \in [1 .. Len(ChainSongs) -> ChainIntervals \cup {<<>>}]}

InitChain ==
    /\ nodes = <<>>
    /\ edges = [s \in Range(ChainSongs) |-> <<>>]
    /\ inp \in ChainBatches
    /\ ret = None
    /\ NoAudio

\* graph.make_edges(xt_pairs) on the fresh graph (test_graph.py line 82)
MakeEdgesOnce ==
    /\ call = Idle
    /\ \E crossfade_length \in Crossfades :
          SetGraph(make_edges(G, inp, crossfade_length))
    /\ call' = [pc |-> "built"]
    /\ ret' = None
    /\ UNCHANGED <<inp, files, cache>>

\* beam_search(graph, k) on the graph built
BeamSearchBuilt ==
    /\ call = [pc |-> "built"]
    /\ \E k \in 1 .. MaxChainK : ret' = beam_search(G, k)
    /\ UNCHANGED <<nodes, edges, inp, files, cache, call>>

NextChain == MakeEdgesOnce \/ BeamSearchBuilt

SpecChain == InitChain /\ [][NextChain]_vars

(***************************************************************************)
(* Claims about single-mix chains (specification SpecChain)                *)
(***************************************************************************)
\* The XTY pairs of the edges beam_search returned.
ChainPairs == [i \in DOMAIN ret.edges |-> ret.edges[i].xty]

\* C22: for candidates that all belong to one mix, one per song, each with
\* cross_in <= cross_out, beam_search (any k >= 1) on the graph built by
\* make_edges never raises, and the XTY pairs it yields form a chain (each
\* pair's Y song is the next pair's X song, no song repeated) with strictly
\* increasing Ycross_in.
C22_SingleMixChain ==
    ret.op = "beam_search" =>
        /\ ret.status = "ok"
        /\ \A i \in 1 .. Len(ChainPairs) - 1 :
              /\ ChainPairs[i].Y_song_path = ChainPairs[i + 1].X_song_path
              /\ ChainPairs[i].Ycross_in < ChainPairs[i + 1].Ycross_in
        /\ \A i, j \in DOMAIN ChainPairs :
              /\ ChainPairs[i].X_song_path # ChainPairs[j].Y_song_path \/ i = j + 1
              /\ i # j => ChainPairs[i].X_song_path # ChainPairs[j].X_song_path

\* A chain over all four songs, through a candidate with cross_in =
\* cross_out, found with k = 1 on a graph built with no crossfade.
C22_Witness ==
    /\ ret.op = "beam_search" /\ ret.k = 1 /\ ret.status = "ok"
    /\ Len(ret.edges) = 3
    /\ ret.edges[2].sourceEnd = ret.edges[1].targetStart
    /\ ret.edges[2].xty.Xcross_out = ret.edges[2].sourceEnd

(***************************************************************************)
(* beam_search level by level.  call holds the locals of the running call  *)
(* (k, the index s of start_id in graph.nodes, beam, best_path and the     *)
(* number of while iterations made for this start); ret is the last        *)
(* iteration made, or the result returned.                                 *)
(***************************************************************************)
MaxLevelEdges == 3

AddSongIdle ==
    /\ call = Idle
    /\ AddSong

AddTransitionIdle ==
    /\ call = Idle
    /\ EdgeCount(G) < MaxLevelEdges
    /\ \E s \in Songs, t \in Songs :
        /\ SetGraph(add_transition(G, s, t, 0, 0, "m1", DirectXTY(s, t, 0, 0, "m1")))
        /\ ret' = None
        /\ UNCHANGED <<inp, files, cache, call>>

\* beam_search(graph, k) entered: best_path = [] (line 89)
EnterBeamSearch ==
    /\ call = Idle
    /\ \E k \in 0 .. MaxK :
          call' = [pc |-> "for", k |-> k, s |-> 1, beam |-> <<>>,
                   best_path |-> <<>>, levels |-> 0]
    /\ ret' = None
    /\ UNCHANGED <<nodes, edges, inp, files, cache>>

\* for start_id in graph.nodes: beam = [([start_id], set([start_id]))]
ForStart ==
    /\ call.pc = "for"
    /\ call.s <= Len(nodes)
    /\ call' = [call EXCEPT !.pc = "while", !.beam = StartBeam(nodes[call.s]),
                            !.levels = 0]
    /\ UNCHANGED <<nodes, edges, inp, ret, files, cache>>

\* One iteration of while beam (lines 94-114); an empty new beam ends the
\* loop and moves on to the next start.  r is what the for loop over the
\* beam leaves, next the beam of line 114.
Level ==
    /\ call.pc = "while"
    /\ \E r \in {ScanBeam(G, call.beam, 1, <<>>, call.best_path)} :
       \E next \in {NextBeam(r.new_beam, call.k)} :
          /\ ret' = [op |-> "level", k |-> call.k, start_id |-> nodes[call.s],
                     beam |-> call.beam, new_beam |-> r.new_beam, next |-> next,
                     levels |-> call.levels + 1]
          /\ call' = [call EXCEPT !.beam = next, !.best_path = r.best_path,
                                  !.levels = @ + 1,
                                  !.pc = IF next = <<>> THEN "for" ELSE "while",
                                  !.s = IF next = <<>> THEN @ + 1 ELSE @]
    /\ UNCHANGED <<nodes, edges, inp, files, cache>>

\* return songs_to_edges(graph, best_path) (line 115)
ReturnBeamSearch ==
    /\ call.pc = "for"
    /\ call.s > Len(nodes)
    /\ \E r \in {songs_to_edges(G, call.best_path, "default")} :
          ret' = [op |-> "beam_search", k |-> call.k, path |-> call.best_path,
                  status |-> r.status, edges |-> r.edges, idx |-> r.idx]
    /\ call' = Idle
    /\ UNCHANGED <<nodes, edges, inp, files, cache>>

SearchStep == ForStart \/ Level \/ ReturnBeamSearch

NextLevels == AddSongIdle \/ AddTransitionIdle \/ EnterBeamSearch \/ SearchStep

SpecLevels == InitGraph /\ [][NextLevels]_vars

\* The same call on graphs over two songs, which hold self-loops, two-song
\* cycles and parallel edges together; a call that has started keeps
\* running.
MaxFairEdges == 4
FairSongs == {"A", "B"}

AddSongFair ==
    /\ call = Idle
    /\ \E s \in FairSongs :
        /\ SetGraph(add_song(G, s))
        /\ ret' = None
        /\ UNCHANGED <<inp, files, cache, call>>

AddTransitionFair ==
    /\ call = Idle
    /\ EdgeCount(G) < MaxFairEdges
    /\ \E s \in FairSongs, t \in FairSongs :
        /\ SetGraph(add_transition(G, s, t, 0, 0, "m1", DirectXTY(s, t, 0, 0, "m1")))
        /\ ret' = None
        /\ UNCHANGED <<inp, files, cache, call>>

NextTerminate == AddSongFair \/ AddTransitionFair \/ EnterBeamSearch \/ SearchStep

SpecTerminate == InitGraph /\ [][NextTerminate]_vars /\ WF_vars(SearchStep)

(***************************************************************************)
(* Claims about the levels of beam_search (SpecLevels, SpecTerminate)      *)
(***************************************************************************)
IsLevel == ret.op = "level"

\* The stepped call returns what beam_search(graph, k) is defined to return.
LevelsAgreeWithBeamSearch ==
    ret.op = "beam_search" => ret = beam_search(G, ret.k)

\* The number of path's last song's outgoing edges whose target is not on path.
Heuristic(path) ==
    Cardinality({j \in 1 .. Len(edges[Last(path)]) :
                    edges[Last(path)][j].target \notin Range(path)})

\* The paths one edge longer than a path of the beam, to a song not on it.
OneEdgeExtensions(beam) ==
    {Append(beam[b].path, edges[Last(beam[b].path)][j].target) :
        <<b, j>> \in {<<b, j>> \in (DOMAIN beam) \X (1 .. MaxLevelEdges + 1) :
                        /\ j <= Len(edges[Last(beam[b].path)])
                        /\ edges[Last(beam[b].path)][j].target \notin Range(beam[b].path)}}

Retained == {ret.next[i].path : i \in DOMAIN ret.next}

\* C23: at every level of beam_search the next beam holds at most k partial
\* paths, all simple paths of the graph of equal length that begin at the
\* current start node; they are one-edge extensions of the beam's paths, k
\* of them or all when there are fewer, and no discarded extension has a
\* strictly higher heuristic value (outgoing edges of the new last song to
\* songs not yet visited) than a retained one; with k = 1 the retained path
\* is an extension of highest value.
C23_NextBeamIsTopK ==
    IsLevel =>
        /\ Len(ret.next) <= ret.k
        /\ Len(ret.next) = Min(ret.k, Len(ret.new_beam))
        /\ Retained \subseteq OneEdgeExtensions(ret.beam)
        /\ \A i \in DOMAIN ret.next :
              LET path == ret.next[i].path
              IN /\ NoRepeat(path)
                 /\ path[1] = ret.start_id
                 /\ Len(path) = ret.levels + 1
                 /\ ret.next[i].visited = Range(path)
                 /\ \A n \in 1 .. Len(path) - 1 :
                       \E j \in DOMAIN edges[path[n]] : edges[path[n]][j].target = path[n + 1]
        /\ \A e \in OneEdgeExtensions(ret.beam) \ Retained :
              \A r \in Retained : Heuristic(e) <= Heuristic(r)
        /\ (ret.k = 1 /\ ret.next # <<>>) =>
              \A e \in OneEdgeExtensions(ret.beam) :
                  Heuristic(e) <= Heuristic(ret.next[1].path)

\* With k = 1 the level kept the second extension generated, of value 1,
\* and discarded the first, of value 0.
C23_Witness ==
    /\ IsLevel /\ ret.k = 1
    /\ Len(ret.new_beam) = 2
    /\ ret.new_beam[1].h = 0 /\ ret.new_beam[2].h = 1
    /\ ret.next[1].path = ret.new_beam[2].path

LevelsBounded ==
    /\ call.pc \in {"for", "while"} => call.levels <= Len(nodes)
    /\ IsLevel => ret.levels <= Len(nodes)

\* C24: beam_search terminates on every finite graph, cycles, self-loops
\* and parallel edges included, for every beam width k >= 0: a call that
\* has started returns, and for each start node the loop runs at most
\* |nodes| levels.
C24_BeamSearchTerminates ==
    /\ [](LevelsBounded)
    /\ (call.pc # "idle") ~> (call.pc = "idle")

\* A call with k = 2 returned from a graph holding a self-loop, a two-song
\* cycle and a parallel edge.
C24_Witness ==
    /\ ret.op = "beam_search" /\ ret.k = 2
    /\ call = Idle
    /\ \E s \in Songs :
          /\ \E j \in DOMAIN edges[s] : edges[s][j].target = s
          /\ \E t \in Songs \ {s} :
                /\ \E i, j \in DOMAIN edges[s] :
                      i # j /\ edges[s][i].target = t /\ edges[s][j].target = t
                /\ \E j \in DOMAIN edges[t] : edges[t][j].target = s

(***************************************************************************)
(* refine_outer_chunks (gettingSongs/recognizer.py 197-248) called on a    *)
(* region that lies inside the song and the mix; inp holds the arguments,  *)
(* call the locals, and the passes of the two loops are Trim and Extend.   *)
(***************************************************************************)
MaxInitialChunk == 4
MaxChunkFactor == 2

\* The same bound one halving lower.
min_chunk_sizeBug(initial_chunk_size, min_chunk_factor) ==
    Max(1, initial_chunk_size \div Pow2(min_chunk_factor + 1))

\* min_chunk_size = max(1, initial_chunk_size // (2 ** min_chunk_factor))

min_chunk_size(initial_chunk_size, min_chunk_factor) ==
    Max(1, initial_chunk_size \div Pow2(min_chunk_factor))

Regions(len) == {r \in (0 .. len) \X (0 .. len) : r[1] <= r[2]}

InitRefine ==
    /\ nodes = EmptyGraph.nodes
    /\ edges = EmptyGraph.edges
    /\ \E song_len \in SongLens, mix_len \in MixLens :
       \E song \in Regions(song_len), mix \in Regions(mix_len) :
          inp \in [song_len : {song_len}, mix_len : {mix_len},
                   song_start : {song[1]}, song_end : {song[2]},
                   mix_start : {mix[1]}, mix_end : {mix[2]},
                   sr : SampleRates,
                   initial_chunk_size : 0 .. MaxInitialChunk,
                   min_chunk_factor : 0 .. MaxChunkFactor]
    /\ ret = None
    /\ NoAudio

\* lines 204-213: min_chunk_size, song_len, mix_len, chunk_size, temp
CallRefineOuterChunks ==
    /\ call = Idle
    /\ call' = [pc |-> "trim", song_len |-> inp.song_len, mix_len |-> inp.mix_len,
                sr |-> inp.sr,
                chunk_size |-> refine_chunk_size(inp.initial_chunk_size, inp.sr, HOP_LENGTH),
                min_chunk_size |-> min_chunk_size(inp.initial_chunk_size,
                                                  inp.min_chunk_factor),
                song_start |-> inp.song_start, mix_start |-> inp.mix_start,
                song_end |-> inp.song_end, mix_end |-> inp.mix_end,
                temp |-> refine_chunk_size(inp.initial_chunk_size, inp.sr, HOP_LENGTH)]
    /\ UNCHANGED <<nodes, edges, inp, ret, files, cache>>

NextRefine == CallRefineOuterChunks \/ Trim \/ Extend

SpecRefine == InitRefine /\ [][NextRefine]_vars

(***************************************************************************)
(* Claims about refine_outer_chunks (specification SpecRefine)             *)
(***************************************************************************)
\* C27: given a region with 0 <= song_start <= song_end <= song_len and
\* 0 <= mix_start <= mix_end <= mix_len, the boundaries refine_outer_chunks
\* returns (here as times, ordered as their numbers of samples frames x
\* hop_length) still satisfy 0 <= song_start <= song_end <= song_len and
\* 0 <= mix_start <= mix_end <= mix_len, for every similarity pattern of the
\* chunks.
C27_RefinedRegionStaysOrdered ==
    call.pc = "returned" =>
        /\ 0 <= call.value[1][1].n
        /\ call.value[1][1].n <= call.value[2][1].n
        /\ call.value[2][1].n <= inp.song_len * HOP_LENGTH
        /\ 0 <= call.value[3][1].n
        /\ call.value[3][1].n <= call.value[4][1].n
        /\ call.value[4][1].n <= inp.mix_len * HOP_LENGTH

\* The chunk sizes n // 2^j, j = 0 .. f, that are >= 1.
ChunkSizes(n, f) == {n \div Pow2(j) : j \in 0 .. f} \ {0}

SmallestOf(S) == CHOOSE x \in S : \A y \in S : x <= y

\* C29: for initial_chunk_size n > 0 and min_chunk_factor f, each of the two
\* loops of refine_outer_chunks (trim, then extend) starts at chunk size n,
\* makes a pass exactly at the sizes n // 2^j, j = 0 .. f, that are >= 1,
\* halving from one pass to the next, and ends at the first size that is
\* not one of them.
C29_LoopsVisitHalvingSizes ==
    [][LET sizes == ChunkSizes(inp.initial_chunk_size, inp.min_chunk_factor)
       IN inp.initial_chunk_size > 0 =>
          /\ (call'.pc \in {"trim", "extend"} /\ call'.pc # call.pc) =>
                call'.temp = inp.initial_chunk_size
          /\ (call.pc \in {"trim", "extend"} /\ call'.pc = call.pc) =>
                /\ call.temp \in sizes
                /\ call'.temp = call.temp \div 2
          /\ (call.pc \in {"trim", "extend"} /\ call'.pc # call.pc) =>
                /\ call.temp \notin sizes
                /\ call.temp = SmallestOf(sizes) \div 2]_vars

\* The extending loop has passed sizes 4 and 2 of n = 4, f = 2 and is at
\* its last size, 1.
C29_Witness ==
    /\ call.pc = "extend"
    /\ inp.initial_chunk_size = 4 /\ inp.min_chunk_factor = 2
    /\ call.temp = 1

(***************************************************************************)
(* expand_isometry as one call (specification SpecExpand)                  *)
(***************************************************************************)
MaxExpandChunk == 2                   \* chunk_size ranges over 1..MaxExpandChunk

\* The backward loop leaving on a similarity equal to the threshold as well.
RECURSIVE ExpandBackLoopBug(_, _, _, _)
ExpandBackLoopBug(s, m, chunk_size, sim) ==
    IF s - chunk_size >= 0 /\ m - chunk_size >= 0 /\ sim[s - chunk_size] = "above"
    THEN ExpandBackLoopBug(s - chunk_size, m - chunk_size, chunk_size, sim)
    ELSE <<s, m>>

\* expand_isometry lines 149-160: the backward loop from (s, m).  sim[x] is
\* the similarity, against sim_threshold, of the song chunk starting at
\* frame x with the mix chunk the loop pairs it with; "if sim <
\* sim_threshold: break" leaves on "below" only.
RECURSIVE ExpandBackLoop(_, _, _, _)
ExpandBackLoop(s, m, chunk_size, sim) ==
    IF s - chunk_size >= 0 /\ m - chunk_size >= 0 /\ sim[s - chunk_size] # "below"
    THEN ExpandBackLoop(s - chunk_size, m - chunk_size, chunk_size, sim)
    ELSE <<s, m>>

\* expand_isometry lines 163-175: the forward loop from (s, m).
RECURSIVE ExpandForwardLoop(_, _, _, _, _, _)
ExpandForwardLoop(s, m, song_len, mix_len, chunk_size, sim) ==
    IF s + chunk_size <= song_len /\ m + chunk_size <= mix_len /\ sim[s] # "below"
    THEN ExpandForwardLoop(s + chunk_size, m + chunk_size, song_len, mix_len,
                           chunk_size, sim)
    ELSE <<s, m>>

\* expand_isometry lines 141-179: (refined_song_start, refined_mix_start,
\* refined_song_end, refined_mix_end).
expand_isometry(song_len, mix_len, first_chunk_start, first_mix_start, last_chunk_start, last_mix_start, chunk_size, sim_back, sim_forward) ==
    LET back == ExpandBackLoop(first_chunk_start, first_mix_start, chunk_size, sim_back)
        forward == ExpandForwardLoop(last_chunk_start, last_mix_start, song_len,
                                     mix_len, chunk_size, sim_forward)
    IN <<back[1], back[2], forward[1], forward[2]>>

\* The chunk starts are frames of the song and of the mix.
InitExpand ==
    /\ nodes = EmptyGraph.nodes
    /\ edges = EmptyGraph.edges
    /\ \E song_len \in SongLens, mix_len \in MixLens :
          inp \in [song_len : {song_len}, mix_len : {mix_len},
                   first_chunk_start : 0 .. song_len, first_mix_start : 0 .. mix_len,
                   last_chunk_start : 0 .. song_len, last_mix_start : 0 .. mix_len,
                   chunk_size : 1 .. MaxExpandChunk]
    /\ ret = None
    /\ NoAudio

CallExpandIsometry ==
    /\ ret = None
    /\ \E sim_back \in [0 .. inp.song_len - 1 -> SIM_LEVELS],
          sim_forward \in [0 .. inp.song_len - 1 -> SIM_LEVELS] :
          ret' = [op |-> "expand_isometry", sim_back |-> sim_back,
                  sim_forward |-> sim_forward,
                  result |-> expand_isometry(inp.song_len, inp.mix_len,
                                             inp.first_chunk_start, inp.first_mix_start,
                                             inp.last_chunk_start, inp.last_mix_start,
                                             inp.chunk_size, sim_back, sim_forward)]
    /\ UNCHANGED <<nodes, edges, inp, files, cache, call>>

NextExpand == CallExpandIsometry

SpecExpand == InitExpand /\ [][NextExpand]_vars

(***************************************************************************)
(* Claims about expand_isometry (specification SpecExpand)                 *)
(***************************************************************************)
\* The chunk k steps before the first one lies inside both arrays and is
\* at or above the threshold.
GoodBefore(k) ==
    /\ inp.first_chunk_start - k * inp.chunk_size >= 0
    /\ inp.first_mix_start - k * inp.chunk_size >= 0
    /\ ret.sim_back[inp.first_chunk_start - k * inp.chunk_size] # "below"

\* The chunk k steps after the last chunk start, likewise.
GoodAfter(k) ==
    /\ inp.last_chunk_start + k * inp.chunk_size <= inp.song_len
    /\ inp.last_mix_start + k * inp.chunk_size <= inp.mix_len
    /\ ret.sim_forward[inp.last_chunk_start + (k - 1) * inp.chunk_size] # "below"

\* C28: expand_isometry moves the start back by whole chunk_size steps
\* while the chunk immediately before it lies inside both arrays and has
\* similarity >= sim_threshold, and the end forward likewise, stopping in
\* each direction at the first chunk below threshold or out of bounds;
\* 0 <= refined start <= first chunk start and last chunk start <= refined
\* end <= array length, in the song and in the mix.
C28_ExpandsByWholeChunks ==
    ret # None =>
        /\ \E k \in 0 .. inp.song_len :
              /\ \A j \in 1 .. k : GoodBefore(j)
              /\ ~GoodBefore(k + 1)
              /\ ret.result[1] = inp.first_chunk_start - k * inp.chunk_size
              /\ ret.result[2] = inp.first_mix_start - k * inp.chunk_size
        /\ \E k \in 0 .. inp.song_len :
              /\ \A j \in 1 .. k : GoodAfter(j)
              /\ ~GoodAfter(k + 1)
              /\ ret.result[3] = inp.last_chunk_start + k * inp.chunk_size
              /\ ret.result[4] = inp.last_mix_start + k * inp.chunk_size
        /\ 0 <= ret.result[1] /\ ret.result[1] <= inp.first_chunk_start
        /\ 0 <= ret.result[2] /\ ret.result[2] <= inp.first_mix_start
        /\ inp.last_chunk_start <= ret.result[3] /\ ret.result[3] <= inp.song_len
        /\ inp.last_mix_start <= ret.result[4] /\ ret.result[4] <= inp.mix_len

\* Two steps back over a chunk exactly at the threshold, then a stop at a
\* chunk below it; one step forward, then a stop at the end of the song.
C28_Witness ==
    /\ ret # None
    /\ inp.chunk_size = 1
    /\ inp.first_chunk_start = 3
    /\ ret.sim_back[2] = "equal"
    /\ ret.sim_back[0] = "below"
    /\ ret.result[1] = 1
    /\ inp.last_chunk_start = 2
    /\ ret.result[3] = 3
    /\ ret.result[3] = inp.song_len

(***************************************************************************)
(* Graphs built by add_song, add_transition and make_edges in any order    *)
(* (specification SpecBuild)                                               *)
(***************************************************************************)
MaxBuildEdges == 2                    \* edges held before a call that adds some

\* Candidate lists of at most two songs of the mix m1.
BuildBatches ==
    {b \in Batches : Len(b) <= 2 /\ \A i \in 1 .. Len(b) : b[i].mix_song_path = "m1"}

\* graph.make_edges(XTpairs, crossfade_length) on the graph so far.
MakeEdgesBuild ==
    /\ EdgeCount(G) < MaxBuildEdges
    /\ \E XTpairs \in BuildBatches, crossfade_length \in Crossfades :
          SetGraph(make_edges(G, XTpairs, crossfade_length))
    /\ ret' = None
    /\ UNCHANGED <<inp, files, cache, call>>

\* graph.add_transition(...) on the graph so far.
AddTransitionBuild ==
    /\ EdgeCount(G) < MaxBuildEdges
    /\ AddTransition

\* graph.get_neighbors(s): self.nodes[edge.target] raises KeyError on a
\* target that is no key of nodes (line 47).
GetNeighbors ==
    \E s \in Songs :
        /\ ret' = [op |-> "get_neighbors", song_id |-> s,
                   raised |-> IF \E i \in 1 .. Len(edges[s]) :
                                     edges[s][i].target \notin Range(nodes)
                              THEN "KeyError" ELSE "none",
                   value |-> get_neighbors(G, s)]
        /\ UNCHANGED <<nodes, edges, inp, files, cache, call>>

NextBuild == AddSong \/ AddTransitionBuild \/ MakeEdgesBuild \/ GetNeighbors

SpecBuild == InitGraph /\ [][NextBuild]_vars

(***************************************************************************)
(* Claims about graph construction (specification SpecBuild)               *)
(***************************************************************************)
\* C30: after any sequence of add_song, add_transition and make_edges
\* calls, every edge stored under edges[s] has source s, and both its
\* source and its target are keys of nodes, so get_neighbors never looks
\* up a missing node.
C30_EdgesJoinKnownSongs ==
    /\ \A s \in Songs : \A i \in 1 .. Len(edges[s]) :
          /\ edges[s][i].source = s
          /\ edges[s][i].source \in Range(nodes)
          /\ edges[s][i].target \in Range(nodes)
    /\ ret.op = "get_neighbors" => ret.raised = "none"

\* A song with one edge from make_edges and one added directly, a third
\* song added by add_song alone, and get_neighbors called on the first.
C30_Witness ==
    /\ ret.op = "get_neighbors"
    /\ Len(ret.value) = 2
    /\ \E i, j \in 1 .. Len(edges[ret.song_id]) :
          /\ edges[ret.song_id][i].xty.Ycross_in = 7
          /\ edges[ret.song_id][i].sourceEnd = 1 + DEFAULT_CROSSFADE
          /\ edges[ret.song_id][j].sourceEnd = 0
          /\ edges[ret.song_id][j].target = ret.song_id
    /\ \E s \in Range(nodes) :
          /\ edges[s] = <<>>
          /\ \A t \in Songs : \A i \in 1 .. Len(edges[t]) : edges[t][i].target # s

==============================================================================
